---- MODULE Spec2Model ----
(***************************************************************************)
(* State-machine model of contracts/SecretDeal.sol: the deal registry,     *)
(* the offer store and the five state-changing commands createDeal,        *)
(* submitOffer, revealOffer, finalizeDeal and cancelDeal.                  *)
(*                                                                         *)
(* Every command is one transaction: it either commits all its writes or   *)
(* reverts with the message of the first failing require and leaves the    *)
(* contract storage untouched.  The variable result records the last       *)
(* transaction (command, msg.sender, arguments, revert message or OK,      *)
(* return value, emitted events) so that outcomes can be stated over       *)
(* states.  issued, submitted and wasTerminal are history variables: the   *)
(* ids returned by createDeal so far, the number of committed submitOffer  *)
(* transactions per (deal, party), and the ids that were ever finalized or *)
(* cancelled.  No command reads them.  A call of a view function is a step  *)
(* that records the returned value in result and writes nothing.           *)
(*                                                                         *)
(* Solidity mappings are total with zero defaults.  They are modelled as   *)
(* functions on the keys that were written, read through Deal, Offer,      *)
(* OfferCount and PartyDeals, which supply the zero value elsewhere.       *)
(* Strings are sequences of bytes; addresses are positive integers and     *)
(* ZeroAddr is address(0), which is never a msg.sender.  The encrypted     *)
(* input of submitOffer is an opaque handle; FHE.fromExternal is taken on  *)
(* inputs whose proof verifies, for which it returns the handle.           *)
(***************************************************************************)
EXTENDS Integers, Sequences, FiniteSets, TLC

\* ---------------------------------------------------------------- constants
MAX_DEAL_NAME_LENGTH == 256
MAX_PARTIES_PER_DEAL == 100
ZeroAddr == 0

\* ------------------------------------------------------------------- bounds
\* Spec: the accounts 1..NumAddrs send transactions that target the first deal id.
NumAddrs == 2
\* SpecReg: one account sends transactions that target the ids 0..MaxDeals-1.
MaxDeals == 2
\* SpecCap: deal 0 starts with MAX_PARTIES_PER_DEAL - CapSlack parties.
CapSlack == 2
\* the block timestamps run from 1 to MaxTime
MaxTime == 3

Addrs == 1..NumAddrs
FirstDeal == {0}
DealIds == 0..(MaxDeals - 1)
RegAddrs == {1}
\* address(this), the contract's own address
ThisAddr == MAX_PARTIES_PER_DEAL + NumAddrs + CapSlack + 1

\* A string of n bytes.
Str(n) == [i \in 1..n |-> 97]

\* Arguments of createDeal: the accepted corners and each rejected neighbour.
CreateInputs ==
    { [dealName |-> Str(1), requiredParties |-> 1],
      [dealName |-> Str(MAX_DEAL_NAME_LENGTH), requiredParties |-> MAX_PARTIES_PER_DEAL],
      [dealName |-> Str(0), requiredParties |-> 1],
      [dealName |-> Str(MAX_DEAL_NAME_LENGTH + 1), requiredParties |-> 1],
      [dealName |-> Str(1), requiredParties |-> 0],
      [dealName |-> Str(1), requiredParties |-> MAX_PARTIES_PER_DEAL + 1] }
\* SpecReg issues one accepted and one rejected createDeal.
RegCreateInputs ==
    { [dealName |-> Str(1), requiredParties |-> 1],
      [dealName |-> Str(0), requiredParties |-> 1] }
Titles == { Str(0), Str(1) }
Descriptions == { Str(0) }
\* The encrypted input a sender can prove: one handle per sender.
InputHandles(sender) == { sender }

OK == "OK"

VARIABLES dealCounter, deals, offers, offerCount, partyDeals, acl, now, result,
          issued, submitted, wasTerminal

storage == <<dealCounter, deals, offers, offerCount, partyDeals, acl>>
history == <<issued, submitted, wasTerminal>>
vars == <<dealCounter, deals, offers, offerCount, partyDeals, acl, now, result,
          issued, submitted, wasTerminal>>

\* ----------------------------------------------------------- storage reads
DefaultDeal ==
    [dealName |-> <<>>, requiredParties |-> 0, createdAt |-> 0, finalized |-> FALSE,
     cancelled |-> FALSE, creator |-> ZeroAddr, parties |-> <<>>]
DefaultOffer ==
    [party |-> ZeroAddr, encryptedValue |-> 0, title |-> <<>>, description |-> <<>>,
     timestamp |-> 0, revealed |-> FALSE]

Deal(dealId) == IF dealId \in DOMAIN deals THEN deals[dealId] ELSE DefaultDeal
Offer(dealId, party) ==
    IF <<dealId, party>> \in DOMAIN offers THEN offers[<<dealId, party>>] ELSE DefaultOffer
OfferCount(dealId) == IF dealId \in DOMAIN offerCount THEN offerCount[dealId] ELSE 0
PartyDeals(party) == IF party \in DOMAIN partyDeals THEN partyDeals[party] ELSE <<>>
\* History: the committed submitOffer transactions of party on dealId.
Submitted(dealId, party) ==
    IF <<dealId, party>> \in DOMAIN submitted THEN submitted[<<dealId, party>>] ELSE 0

\* A storage write m[k] = v.
\* Mutant of Put: the write lands in every slot of the mapping.
Put_AllKeys(m, k, v) == [x \in DOMAIN m \cup {k} |-> v]

\* A write of one mapping slot.
Put(m, k, v) == [x \in DOMAIN m \cup {k} |-> IF x = k THEN v ELSE m[x]]

\* ------------------------------------------------------------------- views
\* Mutant of areAllOffersRevealed: the early return on an empty parties list
\* is missing, so the loop over no party returns true.
areAllOffersRevealed_NoEmptyCheck(dealId) ==
    LET deal == Deal(dealId) IN
    \A i \in 1..Len(deal.parties) : Offer(dealId, deal.parties[i]).revealed

areAllOffersRevealed(dealId) ==
    LET deal == Deal(dealId) IN
    IF Len(deal.parties) = 0 THEN FALSE
    ELSE \A i \in 1..Len(deal.parties) : Offer(dealId, deal.parties[i]).revealed

getPartyCount(dealId) == Len(Deal(dealId).parties)
getDealsByParty(party) == PartyDeals(party)
getPartyDealCount(party) == Len(PartyDeals(party))
isCreator(dealId, account) == Deal(dealId).creator = account

\* ------------------------------------------------------------ transactions
NoArgs == [dealName |-> <<>>, requiredParties |-> 0, title |-> <<>>, description |-> <<>>]

\* Mutant of Revert: createDeal has taken the next id before its requires and
\* the failing require does not roll the counter back.
Revert_CounterKept(cmd, sender, dealId, args, err) ==
    /\ result' = [cmd |-> cmd, sender |-> sender, dealId |-> dealId, args |-> args,
                  err |-> err, ret |-> <<>>, events |-> <<>>]
    /\ dealCounter' = IF cmd = "createDeal" THEN dealCounter + 1 ELSE dealCounter
    /\ UNCHANGED <<deals, offers, offerCount, partyDeals, acl, now, history>>

\* The transaction reverts: storage is rolled back, nothing is emitted.
Revert(cmd, sender, dealId, args, err) ==
    /\ result' = [cmd |-> cmd, sender |-> sender, dealId |-> dealId, args |-> args,
                  err |-> err, ret |-> <<>>, events |-> <<>>]
    /\ UNCHANGED <<storage, now, history>>

\* Mutant of Commit: the emit statements are missing.
Commit_EventsDropped(cmd, sender, dealId, args, ret, events) ==
    result' = [cmd |-> cmd, sender |-> sender, dealId |-> dealId, args |-> args,
               err |-> OK, ret |-> ret, events |-> <<>>]

\* The transaction commits with return values ret and the events it emitted.
Commit(cmd, sender, dealId, args, ret, events) ==
    result' = [cmd |-> cmd, sender |-> sender, dealId |-> dealId, args |-> args,
               err |-> OK, ret |-> ret, events |-> events]

\* Mutant of createDealError: the name bound is strict (< for <=).
createDealError_StrictNameBound(dealName, requiredParties) ==
    IF ~(requiredParties > 0) THEN "At least one party required"
    ELSE IF ~(requiredParties <= MAX_PARTIES_PER_DEAL) THEN "Too many required parties"
    ELSE IF ~(Len(dealName) > 0) THEN "Deal name cannot be empty"
    ELSE IF ~(Len(dealName) < MAX_DEAL_NAME_LENGTH) THEN "Deal name too long"
    ELSE OK

\* The require chain of createDeal: the message of the first failing require.
createDealError(dealName, requiredParties) ==
    IF ~(requiredParties > 0) THEN "At least one party required"
    ELSE IF ~(requiredParties <= MAX_PARTIES_PER_DEAL) THEN "Too many required parties"
    ELSE IF ~(Len(dealName) > 0) THEN "Deal name cannot be empty"
    ELSE IF ~(Len(dealName) <= MAX_DEAL_NAME_LENGTH) THEN "Deal name too long"
    ELSE OK

\* Mutant of NewDealId: the counter is incremented before it is read (++dealCounter).
NewDealId_PreIncrement == dealCounter + 1

\* The value of dealCounter++: the counter before the increment.
NewDealId == dealCounter

\* Mutant of createDeal: the record of the new id is cleared first (delete
\* deals[dealId]), which empties its parties list.
createDeal_ClearsParties(sender, dealName, requiredParties) ==
    LET err == createDealError(dealName, requiredParties)
        args == [NoArgs EXCEPT !.dealName = dealName, !.requiredParties = requiredParties]
        dealId == NewDealId
    IN  IF err # OK
        THEN Revert("createDeal", sender, dealId, args, err)
        ELSE /\ dealCounter' = dealCounter + 1
             /\ deals' = Put(deals, dealId,
                             [DefaultDeal EXCEPT !.dealName = dealName,
                                                 !.requiredParties = requiredParties,
                                                 !.createdAt = now,
                                                 !.creator = sender])
             /\ Commit("createDeal", sender, dealId, args, <<dealId>>,
                       << <<"DealCreated", dealId, dealName, requiredParties, sender>> >>)
             /\ issued' = Append(issued, dealId)
             /\ UNCHANGED <<offers, offerCount, partyDeals, acl, now, submitted, wasTerminal>>

createDeal(sender, dealName, requiredParties) ==
    LET err == createDealError(dealName, requiredParties)
        args == [NoArgs EXCEPT !.dealName = dealName, !.requiredParties = requiredParties]
        dealId == NewDealId
    IN  IF err # OK
        THEN Revert("createDeal", sender, dealId, args, err)
        ELSE /\ dealCounter' = dealCounter + 1
             /\ deals' = Put(deals, dealId,
                             [Deal(dealId) EXCEPT !.dealName = dealName,
                                                  !.requiredParties = requiredParties,
                                                  !.createdAt = now,
                                                  !.finalized = FALSE,
                                                  !.cancelled = FALSE,
                                                  !.creator = sender])
             /\ Commit("createDeal", sender, dealId, args, <<dealId>>,
                       << <<"DealCreated", dealId, dealName, requiredParties, sender>> >>)
             /\ issued' = Append(issued, dealId)
             /\ UNCHANGED <<offers, offerCount, partyDeals, acl, now, submitted, wasTerminal>>

\* Mutant of submitOfferError: the duplicate-offer require is missing.
submitOfferError_NoDuplicateCheck(dealId, sender, title) ==
    LET deal == Deal(dealId) IN
    IF ~(~deal.finalized) THEN "Deal already finalized"
    ELSE IF ~(~deal.cancelled) THEN "Deal has been cancelled"
    ELSE IF ~(Len(title) > 0) THEN "Title cannot be empty"
    ELSE IF ~(Len(deal.parties) < MAX_PARTIES_PER_DEAL) THEN "Maximum parties reached"
    ELSE OK

\* Mutant of submitOfferError: the finalized require is missing.
submitOfferError_NoFinalizedCheck(dealId, sender, title) ==
    LET deal == Deal(dealId) IN
    IF ~(~deal.cancelled) THEN "Deal has been cancelled"
    ELSE IF ~(Offer(dealId, sender).party = ZeroAddr) THEN "Offer already submitted"
    ELSE IF ~(Len(title) > 0) THEN "Title cannot be empty"
    ELSE IF ~(Len(deal.parties) < MAX_PARTIES_PER_DEAL) THEN "Maximum parties reached"
    ELSE OK

\* Mutant of submitOfferError: the party cap is off by one (<= for <).
submitOfferError_CapOffByOne(dealId, sender, title) ==
    LET deal == Deal(dealId) IN
    IF ~(~deal.finalized) THEN "Deal already finalized"
    ELSE IF ~(~deal.cancelled) THEN "Deal has been cancelled"
    ELSE IF ~(Offer(dealId, sender).party = ZeroAddr) THEN "Offer already submitted"
    ELSE IF ~(Len(title) > 0) THEN "Title cannot be empty"
    ELSE IF ~(Len(deal.parties) <= MAX_PARTIES_PER_DEAL) THEN "Maximum parties reached"
    ELSE OK

\* Mutant of submitOfferError: the title require comes before the duplicate
\* require.
submitOfferError_TitleBeforeDuplicate(dealId, sender, title) ==
    LET deal == Deal(dealId) IN
    IF ~(~deal.finalized) THEN "Deal already finalized"
    ELSE IF ~(~deal.cancelled) THEN "Deal has been cancelled"
    ELSE IF ~(Len(title) > 0) THEN "Title cannot be empty"
    ELSE IF ~(Offer(dealId, sender).party = ZeroAddr) THEN "Offer already submitted"
    ELSE IF ~(Len(deal.parties) < MAX_PARTIES_PER_DEAL) THEN "Maximum parties reached"
    ELSE OK

\* The require chain of submitOffer.
submitOfferError(dealId, sender, title) ==
    LET deal == Deal(dealId) IN
    IF ~(~deal.finalized) THEN "Deal already finalized"
    ELSE IF ~(~deal.cancelled) THEN "Deal has been cancelled"
    ELSE IF ~(Offer(dealId, sender).party = ZeroAddr) THEN "Offer already submitted"
    ELSE IF ~(Len(title) > 0) THEN "Title cannot be empty"
    ELSE IF ~(Len(deal.parties) < MAX_PARTIES_PER_DEAL) THEN "Maximum parties reached"
    ELSE OK

\* Mutant of fromExternal: every input is converted to one and the same handle.
fromExternal_SharedHandle(inputEuint32) == 0

\* FHE.fromExternal on an input whose proof verifies.
fromExternal(inputEuint32) == inputEuint32

\* Mutant of submitOffer: offerCount is not incremented.
submitOffer_CountNotIncremented(sender, dealId, inputEuint32, title, description) ==
    LET err == submitOfferError(dealId, sender, title)
        args == [NoArgs EXCEPT !.title = title, !.description = description]
        deal == Deal(dealId)
        encryptedValue == fromExternal(inputEuint32)
    IN  IF err # OK
        THEN Revert("submitOffer", sender, dealId, args, err)
        ELSE /\ offers' = Put(offers, <<dealId, sender>>,
                              [party |-> sender, encryptedValue |-> encryptedValue,
                               title |-> title, description |-> description,
                               timestamp |-> now, revealed |-> FALSE])
             /\ deals' = Put(deals, dealId,
                             [deal EXCEPT !.parties = Append(deal.parties, sender)])
             /\ partyDeals' = Put(partyDeals, sender, Append(PartyDeals(sender), dealId))
             /\ acl' = acl \cup { <<encryptedValue, ThisAddr>>, <<encryptedValue, sender>> }
             /\ Commit("submitOffer", sender, dealId, args, <<>>,
                       << <<"OfferSubmitted", dealId, sender, title>> >>)
             /\ submitted' = Put(submitted, <<dealId, sender>>, Submitted(dealId, sender) + 1)
             /\ UNCHANGED <<dealCounter, offerCount, now, issued, wasTerminal>>

\* Mutant of submitOffer: the deal id is put at the front of the sender's
\* index instead of being pushed at its end.
submitOffer_IndexPrepended(sender, dealId, inputEuint32, title, description) ==
    LET err == submitOfferError(dealId, sender, title)
        args == [NoArgs EXCEPT !.title = title, !.description = description]
        deal == Deal(dealId)
        encryptedValue == fromExternal(inputEuint32)
    IN  IF err # OK
        THEN Revert("submitOffer", sender, dealId, args, err)
        ELSE /\ offers' = Put(offers, <<dealId, sender>>,
                              [party |-> sender, encryptedValue |-> encryptedValue,
                               title |-> title, description |-> description,
                               timestamp |-> now, revealed |-> FALSE])
             /\ deals' = Put(deals, dealId,
                             [deal EXCEPT !.parties = Append(deal.parties, sender)])
             /\ offerCount' = Put(offerCount, dealId, OfferCount(dealId) + 1)
             /\ partyDeals' = Put(partyDeals, sender, <<dealId>> \o PartyDeals(sender))
             /\ acl' = acl \cup { <<encryptedValue, ThisAddr>>, <<encryptedValue, sender>> }
             /\ Commit("submitOffer", sender, dealId, args, <<>>,
                       << <<"OfferSubmitted", dealId, sender, title>> >>)
             /\ submitted' = Put(submitted, <<dealId, sender>>, Submitted(dealId, sender) + 1)
             /\ UNCHANGED <<dealCounter, now, issued, wasTerminal>>

submitOffer(sender, dealId, inputEuint32, title, description) ==
    LET err == submitOfferError(dealId, sender, title)
        args == [NoArgs EXCEPT !.title = title, !.description = description]
        deal == Deal(dealId)
        encryptedValue == fromExternal(inputEuint32)
    IN  IF err # OK
        THEN Revert("submitOffer", sender, dealId, args, err)
        ELSE /\ offers' = Put(offers, <<dealId, sender>>,
                              [party |-> sender, encryptedValue |-> encryptedValue,
                               title |-> title, description |-> description,
                               timestamp |-> now, revealed |-> FALSE])
             /\ deals' = Put(deals, dealId,
                             [deal EXCEPT !.parties = Append(deal.parties, sender)])
             /\ offerCount' = Put(offerCount, dealId, OfferCount(dealId) + 1)
             /\ partyDeals' = Put(partyDeals, sender, Append(PartyDeals(sender), dealId))
             /\ acl' = acl \cup { <<encryptedValue, ThisAddr>>, <<encryptedValue, sender>> }
             /\ Commit("submitOffer", sender, dealId, args, <<>>,
                       << <<"OfferSubmitted", dealId, sender, title>> >>)
             /\ submitted' = Put(submitted, <<dealId, sender>>, Submitted(dealId, sender) + 1)
             /\ UNCHANGED <<dealCounter, now, issued, wasTerminal>>

\* Mutant of revealOfferError: the already-revealed require is missing.
revealOfferError_NoRevealedCheck(dealId, sender) ==
    LET offer == Offer(dealId, sender) IN
    IF ~(offer.party = sender) THEN "No offer found for this address"
    ELSE IF ~(~Deal(dealId).cancelled) THEN "Deal has been cancelled"
    ELSE OK

\* Mutant of revealOfferError: the cancelled require is missing.
revealOfferError_NoCancelledCheck(dealId, sender) ==
    LET offer == Offer(dealId, sender) IN
    IF ~(offer.party = sender) THEN "No offer found for this address"
    ELSE IF ~(~offer.revealed) THEN "Offer already revealed"
    ELSE OK

\* Mutant of revealOfferError: the cancelled require comes first.
revealOfferError_CancelledFirst(dealId, sender) ==
    LET offer == Offer(dealId, sender) IN
    IF ~(~Deal(dealId).cancelled) THEN "Deal has been cancelled"
    ELSE IF ~(offer.party = sender) THEN "No offer found for this address"
    ELSE IF ~(~offer.revealed) THEN "Offer already revealed"
    ELSE OK

\* The require chain of revealOffer.
revealOfferError(dealId, sender) ==
    LET offer == Offer(dealId, sender) IN
    IF ~(offer.party = sender) THEN "No offer found for this address"
    ELSE IF ~(~offer.revealed) THEN "Offer already revealed"
    ELSE IF ~(~Deal(dealId).cancelled) THEN "Deal has been cancelled"
    ELSE OK

\* Mutant of revealOffer: the reveal opens every offer of the deal.
revealOffer_RevealsAll(sender, dealId) ==
    LET err == revealOfferError(dealId, sender)
    IN  IF err # OK
        THEN Revert("revealOffer", sender, dealId, NoArgs, err)
        ELSE /\ offers' = [k \in DOMAIN offers |->
                             IF k[1] = dealId THEN [offers[k] EXCEPT !.revealed = TRUE]
                             ELSE offers[k]]
             /\ Commit("revealOffer", sender, dealId, NoArgs, <<>>,
                       << <<"OfferRevealed", dealId, sender>> >>)
             /\ UNCHANGED <<dealCounter, deals, offerCount, partyDeals, acl, now, history>>

\* Mutant of revealOffer: the reveal stamps the offer with the current block
\* time.
revealOffer_Restamps(sender, dealId) ==
    LET err == revealOfferError(dealId, sender)
        offer == Offer(dealId, sender)
    IN  IF err # OK
        THEN Revert("revealOffer", sender, dealId, NoArgs, err)
        ELSE /\ offers' = Put(offers, <<dealId, sender>>,
                              [offer EXCEPT !.revealed = TRUE, !.timestamp = now])
             /\ Commit("revealOffer", sender, dealId, NoArgs, <<>>,
                       << <<"OfferRevealed", dealId, sender>> >>)
             /\ UNCHANGED <<dealCounter, deals, offerCount, partyDeals, acl, now, history>>

revealOffer(sender, dealId) ==
    LET err == revealOfferError(dealId, sender)
        offer == Offer(dealId, sender)
    IN  IF err # OK
        THEN Revert("revealOffer", sender, dealId, NoArgs, err)
        ELSE /\ offers' = Put(offers, <<dealId, sender>>, [offer EXCEPT !.revealed = TRUE])
             /\ Commit("revealOffer", sender, dealId, NoArgs, <<>>,
                       << <<"OfferRevealed", dealId, sender>> >>)
             /\ UNCHANGED <<dealCounter, deals, offerCount, partyDeals, acl, now, history>>

\* Mutant of finalizeDealError: the all-revealed require is missing.
finalizeDealError_NoRevealCheck(dealId) ==
    LET deal == Deal(dealId) IN
    IF ~(~deal.finalized) THEN "Deal already finalized"
    ELSE IF ~(~deal.cancelled) THEN "Deal has been cancelled"
    ELSE IF ~(Len(deal.parties) > 0) THEN "No offers submitted"
    ELSE OK

\* Mutant of finalizeDealError: finalization waits for requiredParties offers.
finalizeDealError_RequiresQuorum(dealId) ==
    LET deal == Deal(dealId) IN
    IF ~(~deal.finalized) THEN "Deal already finalized"
    ELSE IF ~(~deal.cancelled) THEN "Deal has been cancelled"
    ELSE IF ~areAllOffersRevealed(dealId) THEN "Not all offers revealed"
    ELSE IF ~(Len(deal.parties) >= deal.requiredParties) THEN "Not all offers revealed"
    ELSE IF ~(Len(deal.parties) > 0) THEN "No offers submitted"
    ELSE OK

\* Mutant of finalizeDealError: the cancelled require is missing.
finalizeDealError_NoCancelledCheck(dealId) ==
    LET deal == Deal(dealId) IN
    IF ~(~deal.finalized) THEN "Deal already finalized"
    ELSE IF ~areAllOffersRevealed(dealId) THEN "Not all offers revealed"
    ELSE IF ~(Len(deal.parties) > 0) THEN "No offers submitted"
    ELSE OK

\* The require chain of finalizeDeal.
finalizeDealError(dealId) ==
    LET deal == Deal(dealId) IN
    IF ~(~deal.finalized) THEN "Deal already finalized"
    ELSE IF ~(~deal.cancelled) THEN "Deal has been cancelled"
    ELSE IF ~areAllOffersRevealed(dealId) THEN "Not all offers revealed"
    ELSE IF ~(Len(deal.parties) > 0) THEN "No offers submitted"
    ELSE OK

\* Mutant of finalizeDeal: only the creator may finalize.
finalizeDeal_OnlyCreator(sender, dealId) ==
    LET err == IF ~(Deal(dealId).creator = sender) THEN "Only creator can finalize deal"
               ELSE finalizeDealError(dealId)
        deal == Deal(dealId)
    IN  IF err # OK
        THEN Revert("finalizeDeal", sender, dealId, NoArgs, err)
        ELSE /\ deals' = Put(deals, dealId, [deal EXCEPT !.finalized = TRUE])
             /\ Commit("finalizeDeal", sender, dealId, NoArgs, <<>>,
                       << <<"DealFinalized", dealId, now>> >>)
             /\ wasTerminal' = wasTerminal \cup {dealId}
             /\ UNCHANGED <<dealCounter, offers, offerCount, partyDeals, acl, now,
                            issued, submitted>>

finalizeDeal(sender, dealId) ==
    LET err == finalizeDealError(dealId)
        deal == Deal(dealId)
    IN  IF err # OK
        THEN Revert("finalizeDeal", sender, dealId, NoArgs, err)
        ELSE /\ deals' = Put(deals, dealId, [deal EXCEPT !.finalized = TRUE])
             /\ Commit("finalizeDeal", sender, dealId, NoArgs, <<>>,
                       << <<"DealFinalized", dealId, now>> >>)
             /\ wasTerminal' = wasTerminal \cup {dealId}
             /\ UNCHANGED <<dealCounter, offers, offerCount, partyDeals, acl, now,
                            issued, submitted>>

\* Mutant of cancelDealError: the creator require is missing.
cancelDealError_NoCreatorCheck(dealId, sender) ==
    LET deal == Deal(dealId) IN
    IF ~(~deal.finalized) THEN "Cannot cancel finalized deal"
    ELSE IF ~(~deal.cancelled) THEN "Deal already cancelled"
    ELSE OK

\* Mutant of cancelDealError: the finalized require is missing.
cancelDealError_NoFinalizedCheck(dealId, sender) ==
    LET deal == Deal(dealId) IN
    IF ~(deal.creator = sender) THEN "Only creator can cancel deal"
    ELSE IF ~(~deal.cancelled) THEN "Deal already cancelled"
    ELSE OK

\* The require chain of cancelDeal.
cancelDealError(dealId, sender) ==
    LET deal == Deal(dealId) IN
    IF ~(deal.creator = sender) THEN "Only creator can cancel deal"
    ELSE IF ~(~deal.finalized) THEN "Cannot cancel finalized deal"
    ELSE IF ~(~deal.cancelled) THEN "Deal already cancelled"
    ELSE OK

\* Mutant of cancelDeal: the cancellation also deletes the creator.
cancelDeal_DropsCreator(sender, dealId) ==
    LET err == cancelDealError(dealId, sender)
        deal == Deal(dealId)
    IN  IF err # OK
        THEN Revert("cancelDeal", sender, dealId, NoArgs, err)
        ELSE /\ deals' = Put(deals, dealId,
                             [deal EXCEPT !.cancelled = TRUE, !.creator = ZeroAddr])
             /\ Commit("cancelDeal", sender, dealId, NoArgs, <<>>,
                       << <<"DealCancelled", dealId, sender>> >>)
             /\ wasTerminal' = wasTerminal \cup {dealId}
             /\ UNCHANGED <<dealCounter, offers, offerCount, partyDeals, acl, now,
                            issued, submitted>>

cancelDeal(sender, dealId) ==
    LET err == cancelDealError(dealId, sender)
        deal == Deal(dealId)
    IN  IF err # OK
        THEN Revert("cancelDeal", sender, dealId, NoArgs, err)
        ELSE /\ deals' = Put(deals, dealId, [deal EXCEPT !.cancelled = TRUE])
             /\ Commit("cancelDeal", sender, dealId, NoArgs, <<>>,
                       << <<"DealCancelled", dealId, sender>> >>)
             /\ wasTerminal' = wasTerminal \cup {dealId}
             /\ UNCHANGED <<dealCounter, offers, offerCount, partyDeals, acl, now,
                            issued, submitted>>

\* A call of the view areAllOffersRevealed: it returns the value and writes
\* nothing.
call_areAllOffersRevealed(sender, dealId) ==
    /\ Commit("areAllOffersRevealed", sender, dealId, NoArgs,
              <<areAllOffersRevealed(dealId)>>, <<>>)
    /\ UNCHANGED <<storage, now, history>>

\* ----------------------------------------------------------- specification
\* The contract right after deployment: every mapping empty, dealCounter 0.
Init ==
    /\ dealCounter = 0
    /\ deals = <<>>
    /\ offers = <<>>
    /\ offerCount = <<>>
    /\ partyDeals = <<>>
    /\ acl = {}
    /\ now = 1
    /\ result = [cmd |-> "deploy", sender |-> ZeroAddr, dealId |-> 0, args |-> NoArgs,
                 err |-> OK, ret |-> <<>>, events |-> <<>>]
    /\ issued = <<>>
    /\ submitted = <<>>
    /\ wasTerminal = {}

\* One transaction by a sender of senders, targeting an id of ids; createDeal
\* takes its arguments from creates and is issued with acceptable arguments
\* only while the next id is one of ids.
Step(senders, ids, creates) ==
    \/ \E sender \in senders, in \in creates :
         /\ createDealError(in.dealName, in.requiredParties) # OK \/ dealCounter \in ids
         /\ createDeal(sender, in.dealName, in.requiredParties)
    \/ \E sender \in senders, dealId \in ids, title \in Titles,
          description \in Descriptions :
         \E h \in InputHandles(sender) : submitOffer(sender, dealId, h, title, description)
    \/ \E sender \in senders, dealId \in ids : revealOffer(sender, dealId)
    \/ \E sender \in senders, dealId \in ids : finalizeDeal(sender, dealId)
    \/ \E sender \in senders, dealId \in ids : cancelDeal(sender, dealId)

\* The view calls of the accounts senders on the ids.
Views(senders, ids) ==
    \E sender \in senders, dealId \in ids : call_areAllOffersRevealed(sender, dealId)

\* Spec: every account, the first deal id, every createDeal argument.
Next == Step(Addrs, FirstDeal, CreateInputs) \/ Views(Addrs, FirstDeal)
Spec == Init /\ [][Next]_vars

\* SpecReg: one account, every deal id.
NextReg == Step(RegAddrs, DealIds, RegCreateInputs)
SpecReg == Init /\ [][NextReg]_vars

\* SpecCap: deal 0 was created by account 1 and the accounts 1..CapParties have
\* each committed one submitOffer to it, in that order, none revealed.  The
\* creator and the next CapSlack + 1 accounts send the transactions.
CapParties == MAX_PARTIES_PER_DEAL - CapSlack
CapCreator == 1
CapSenders == {CapCreator} \cup ((CapParties + 1)..(MAX_PARTIES_PER_DEAL + 1))

\* The state after createDeal(Str(1), 1) by CapCreator and submitOffer(0, p, Str(1), Str(0))
\* by p = 1, ..., n.
Prefilled(n) ==
    /\ dealCounter = 1
    /\ deals = (0 :> [dealName |-> Str(1), requiredParties |-> 1, createdAt |-> 1,
                      finalized |-> FALSE, cancelled |-> FALSE, creator |-> CapCreator,
                      parties |-> [i \in 1..n |-> i]])
    /\ offers = [k \in {<<0, p>> : p \in 1..n} |->
                   [party |-> k[2], encryptedValue |-> fromExternal(k[2]), title |-> Str(1),
                    description |-> Str(0), timestamp |-> 1, revealed |-> FALSE]]
    /\ offerCount = (0 :> n)
    /\ partyDeals = [p \in 1..n |-> <<0>>]
    /\ acl = UNION { { <<fromExternal(p), ThisAddr>>, <<fromExternal(p), p>> } : p \in 1..n }
    /\ now = 1
    /\ result = [cmd |-> "submitOffer", sender |-> n, dealId |-> 0,
                 args |-> [NoArgs EXCEPT !.title = Str(1)], err |-> OK, ret |-> <<>>,
                 events |-> << <<"OfferSubmitted", 0, n, Str(1)>> >>]
    /\ issued = <<0>>
    /\ submitted = [k \in {<<0, p>> : p \in 1..n} |-> 1]
    /\ wasTerminal = {}

InitCap == Prefilled(CapParties)
NextCap == Step(CapSenders, FirstDeal, RegCreateInputs)
SpecCap == InitCap /\ [][NextCap]_vars

\* SpecTrace: the finalization scenario.  An account creates deal 0 for two
\* parties, two other accounts submit one offer each, the first and then the
\* second of them reveals, and any account may call finalizeDeal or the view
\* areAllOffersRevealed once both offers are in.
TraceAddrs == 1..(NumAddrs + 1)
\* "Pilot Deal", "Offer B", "Offer C", "terms"
TraceDealName == <<80, 105, 108, 111, 116, 32, 68, 101, 97, 108>>
TraceTitleB == <<79, 102, 102, 101, 114, 32, 66>>
TraceTitleC == <<79, 102, 102, 101, 114, 32, 67>>
TraceTerms == <<116, 101, 114, 109, 115>>
TraceRequired == 2

NextTrace ==
    LET parties == Deal(0).parties IN
    \/ \E a \in TraceAddrs :
         /\ dealCounter = 0
         /\ createDeal(a, TraceDealName, TraceRequired)
    \/ \E b \in TraceAddrs \ {Deal(0).creator} :
         /\ dealCounter = 1 /\ Len(parties) = 0
         /\ \E h \in InputHandles(b) : submitOffer(b, 0, h, TraceTitleB, TraceTerms)
    \/ \E c \in TraceAddrs \ {Deal(0).creator} :
         /\ dealCounter = 1 /\ Len(parties) = 1 /\ c # parties[1]
         /\ \E h \in InputHandles(c) : submitOffer(c, 0, h, TraceTitleC, TraceTerms)
    \/ /\ Len(parties) = 2 /\ ~Offer(0, parties[1]).revealed
       /\ revealOffer(parties[1], 0)
    \/ /\ Len(parties) = 2 /\ Offer(0, parties[1]).revealed /\ ~Offer(0, parties[2]).revealed
       /\ revealOffer(parties[2], 0)
    \/ \E s \in TraceAddrs :
         /\ Len(parties) = 2
         /\ finalizeDeal(s, 0)
    \/ /\ Len(parties) = 2
       /\ Views(TraceAddrs, FirstDeal)
SpecTrace == Init /\ [][NextTrace]_vars

\* The state after Prefilled(n) and revealOffer(0) by p = 1, ..., n.
PrefilledRevealed(n) ==
    /\ dealCounter = 1
    /\ deals = (0 :> [dealName |-> Str(1), requiredParties |-> 1, createdAt |-> 1,
                      finalized |-> FALSE, cancelled |-> FALSE, creator |-> CapCreator,
                      parties |-> [i \in 1..n |-> i]])
    /\ offers = [k \in {<<0, p>> : p \in 1..n} |->
                   [party |-> k[2], encryptedValue |-> fromExternal(k[2]), title |-> Str(1),
                    description |-> Str(0), timestamp |-> 1, revealed |-> TRUE]]
    /\ offerCount = (0 :> n)
    /\ partyDeals = [p \in 1..n |-> <<0>>]
    /\ acl = UNION { { <<fromExternal(p), ThisAddr>>, <<fromExternal(p), p>> } : p \in 1..n }
    /\ now = 1
    /\ result = [cmd |-> "revealOffer", sender |-> n, dealId |-> 0, args |-> NoArgs,
                 err |-> OK, ret |-> <<>>, events |-> << <<"OfferRevealed", 0, n>> >>]
    /\ issued = <<0>>
    /\ submitted = [k \in {<<0, p>> : p \in 1..n} |-> 1]
    /\ wasTerminal = {}

\* SpecCapRev: as SpecCap, with the CapParties offers already revealed, so
\* that the deal can also be finalized next to the cap.
InitCapRev == PrefilledRevealed(CapParties)
SpecCapRev == InitCapRev /\ [][NextCap]_vars

\* A new block: block.timestamp advances, the contract's storage stays.
Tick ==
    /\ now < MaxTime
    /\ now' = now + 1
    /\ UNCHANGED <<storage, result, history>>

\* SpecClock: two accounts run every command on the first deal id while the
\* block time advances between transactions, and createDeal also issues the
\* later ids of ClockIds.
ClockAddrs == {1, 2}
ClockIds == {0, 1}
NextClock ==
    \/ Step(ClockAddrs, FirstDeal, RegCreateInputs)
    \/ \E sender \in ClockAddrs, in \in RegCreateInputs :
         /\ createDealError(in.dealName, in.requiredParties) = OK
         /\ dealCounter \in ClockIds \ FirstDeal
         /\ createDeal(sender, in.dealName, in.requiredParties)
    \/ Tick
SpecClock == Init /\ [][NextClock]_vars

\* SpecLive: Spec with weak fairness of each account's committed revealOffer
\* and of a committed finalizeDeal on the first deal id.
LiveFairness ==
    /\ \A p \in Addrs :
          WF_vars(\E d \in FirstDeal : revealOffer(p, d) /\ result'.err = OK)
    /\ WF_vars(\E sender \in Addrs, d \in FirstDeal :
                  finalizeDeal(sender, d) /\ result'.err = OK)
SpecLive == Spec /\ LiveFairness

\* ------------------------------------------------- transactions as functions
\* The storage as one value, and the transactions submitOffer, revealOffer,
\* finalizeDeal and cancelDeal as functions of it, so that two transactions
\* can be run in both orders from one state.
StorageRec ==
    [dealCounter |-> dealCounter, deals |-> deals, offers |-> offers,
     offerCount |-> offerCount, partyDeals |-> partyDeals, acl |-> acl]
DealIn(st, dealId) == IF dealId \in DOMAIN st.deals THEN st.deals[dealId] ELSE DefaultDeal
OfferIn(st, dealId, party) ==
    IF <<dealId, party>> \in DOMAIN st.offers THEN st.offers[<<dealId, party>>]
    ELSE DefaultOffer
OfferCountIn(st, dealId) ==
    IF dealId \in DOMAIN st.offerCount THEN st.offerCount[dealId] ELSE 0
PartyDealsIn(st, party) ==
    IF party \in DOMAIN st.partyDeals THEN st.partyDeals[party] ELSE <<>>
areAllOffersRevealedIn(st, dealId) ==
    LET deal == DealIn(st, dealId) IN
    IF Len(deal.parties) = 0 THEN FALSE
    ELSE \A i \in 1..Len(deal.parties) : OfferIn(st, dealId, deal.parties[i]).revealed

\* The require that fails for transaction c in storage st, or OK.
ExecErr(st, c) ==
    LET deal == DealIn(st, c.dealId)
        offer == OfferIn(st, c.dealId, c.sender)
    IN  CASE c.cmd = "submitOffer" ->
               IF ~(~deal.finalized) THEN "Deal already finalized"
               ELSE IF ~(~deal.cancelled) THEN "Deal has been cancelled"
               ELSE IF ~(offer.party = ZeroAddr) THEN "Offer already submitted"
               ELSE IF ~(Len(c.title) > 0) THEN "Title cannot be empty"
               ELSE IF ~(Len(deal.parties) < MAX_PARTIES_PER_DEAL)
                    THEN "Maximum parties reached"
               ELSE OK
          [] c.cmd = "revealOffer" ->
               IF ~(offer.party = c.sender) THEN "No offer found for this address"
               ELSE IF ~(~offer.revealed) THEN "Offer already revealed"
               ELSE IF ~(~deal.cancelled) THEN "Deal has been cancelled"
               ELSE OK
          [] c.cmd = "finalizeDeal" ->
               IF ~(~deal.finalized) THEN "Deal already finalized"
               ELSE IF ~(~deal.cancelled) THEN "Deal has been cancelled"
               ELSE IF ~areAllOffersRevealedIn(st, c.dealId) THEN "Not all offers revealed"
               ELSE IF ~(Len(deal.parties) > 0) THEN "No offers submitted"
               ELSE OK
          [] c.cmd = "cancelDeal" ->
               IF ~(deal.creator = c.sender) THEN "Only creator can cancel deal"
               ELSE IF ~(~deal.finalized) THEN "Cannot cancel finalized deal"
               ELSE IF ~(~deal.cancelled) THEN "Deal already cancelled"
               ELSE OK

\* Mutant of ExecStore: revealOffer reveals the sender's offer on every deal.
ExecStore_RevealsEverywhere(st, c) ==
    LET deal == DealIn(st, c.dealId)
        offer == OfferIn(st, c.dealId, c.sender)
    IN  IF ExecErr(st, c) # OK THEN st
        ELSE CASE c.cmd = "submitOffer" ->
                    [st EXCEPT
                       !.offers = Put(@, <<c.dealId, c.sender>>,
                                      [party |-> c.sender,
                                       encryptedValue |-> fromExternal(c.handle),
                                       title |-> c.title, description |-> c.description,
                                       timestamp |-> now, revealed |-> FALSE]),
                       !.deals = Put(@, c.dealId,
                                     [deal EXCEPT !.parties = Append(@, c.sender)]),
                       !.offerCount = Put(@, c.dealId, OfferCountIn(st, c.dealId) + 1),
                       !.partyDeals = Put(@, c.sender,
                                          Append(PartyDealsIn(st, c.sender), c.dealId)),
                       !.acl = @ \cup { <<fromExternal(c.handle), ThisAddr>>,
                                        <<fromExternal(c.handle), c.sender>> }]
               [] c.cmd = "revealOffer" ->
                    [st EXCEPT
                       !.offers = [k \in DOMAIN @ |->
                                     IF k[2] = c.sender THEN [@[k] EXCEPT !.revealed = TRUE]
                                     ELSE @[k]]]
               [] c.cmd = "finalizeDeal" ->
                    [st EXCEPT !.deals = Put(@, c.dealId, [deal EXCEPT !.finalized = TRUE])]
               [] c.cmd = "cancelDeal" ->
                    [st EXCEPT !.deals = Put(@, c.dealId, [deal EXCEPT !.cancelled = TRUE])]

\* The storage after transaction c in storage st: st itself when c reverts.
ExecStore(st, c) ==
    LET deal == DealIn(st, c.dealId)
        offer == OfferIn(st, c.dealId, c.sender)
    IN  IF ExecErr(st, c) # OK THEN st
        ELSE CASE c.cmd = "submitOffer" ->
                    [st EXCEPT
                       !.offers = Put(@, <<c.dealId, c.sender>>,
                                      [party |-> c.sender,
                                       encryptedValue |-> fromExternal(c.handle),
                                       title |-> c.title, description |-> c.description,
                                       timestamp |-> now, revealed |-> FALSE]),
                       !.deals = Put(@, c.dealId,
                                     [deal EXCEPT !.parties = Append(@, c.sender)]),
                       !.offerCount = Put(@, c.dealId, OfferCountIn(st, c.dealId) + 1),
                       !.partyDeals = Put(@, c.sender,
                                          Append(PartyDealsIn(st, c.sender), c.dealId)),
                       !.acl = @ \cup { <<fromExternal(c.handle), ThisAddr>>,
                                        <<fromExternal(c.handle), c.sender>> }]
               [] c.cmd = "revealOffer" ->
                    [st EXCEPT
                       !.offers = Put(@, <<c.dealId, c.sender>>,
                                      [offer EXCEPT !.revealed = TRUE])]
               [] c.cmd = "finalizeDeal" ->
                    [st EXCEPT !.deals = Put(@, c.dealId, [deal EXCEPT !.finalized = TRUE])]
               [] c.cmd = "cancelDeal" ->
                    [st EXCEPT !.deals = Put(@, c.dealId, [deal EXCEPT !.cancelled = TRUE])]

\* SpecComm: the committed transactions of two accounts on two deal ids.  A
\* reverted transaction writes nothing, so these are all the storage states
\* the two accounts can reach on the two ids.
CommAddrs == {1, 2}
CommIds == {0, 1}
NextComm == Step(CommAddrs, CommIds, RegCreateInputs) /\ result'.err = OK
SpecComm == Init /\ [][NextComm]_vars

\* The transactions of CommAddrs on CommIds.
CommCmds ==
    UNION { { [cmd |-> "submitOffer", sender |-> s, dealId |-> d, title |-> t,
               description |-> ds, handle |-> h] :
                 d \in CommIds, t \in Titles, ds \in Descriptions, h \in InputHandles(s) }
            : s \in CommAddrs }
    \cup
    { [cmd |-> k, sender |-> s, dealId |-> d, title |-> <<>>, description |-> <<>>,
       handle |-> 0] :
         k \in {"revealOffer", "finalizeDeal", "cancelDeal"}, s \in CommAddrs,
         d \in CommIds }

\* PrefilledRevealed(n) is a state of the contract: Spec reaches it for n = NumAddrs.
PrefilledRevealedUnreached == ~PrefilledRevealed(NumAddrs)

\* Prefilled(n) is a state of the contract: Spec reaches it for n = NumAddrs.
PrefilledUnreached == ~Prefilled(NumAddrs)

\* ------------------------------------------------------------------ claims
Ids == FirstDeal \cup DealIds \cup ClockIds
\* Every account that sends a transaction in some specification.
Senders == Addrs \cup RegAddrs \cup CapSenders \cup TraceAddrs \cup ClockAddrs

PartySet(dealId) == { Deal(dealId).parties[i] : i \in 1..Len(Deal(dealId).parties) }
EveryPartyRevealed(dealId) == \A p \in PartySet(dealId) : Offer(dealId, p).revealed
IsOpen(dealId) == ~Deal(dealId).finalized /\ ~Deal(dealId).cancelled

\* C1 (as claimed): once a deal id is Finalized it is Finalized in every later
\* state, and once it is Cancelled it is Cancelled in every later state: no
\* command moves a deal id out of a terminal status.
C1_TerminalStatusIsPermanent ==
    [][\A d \in Ids :
          /\ Deal(d).finalized => Deal(d)'.finalized
          /\ Deal(d).cancelled => Deal(d)'.cancelled]_vars

\* C2: on a deal that is neither finalized nor cancelled, finalizeDeal by any
\* sender succeeds exactly when the parties list is non-empty and every listed
\* party's offer is revealed, and then the deal is Finalized; otherwise it
\* fails with "Not all offers revealed" or "No offers submitted" and the deal
\* stays Open.
C2_FinalizeGuard ==
    [][\A d \in Ids :
          (result'.cmd = "finalizeDeal" /\ result'.dealId = d /\ IsOpen(d)) =>
             IF Len(Deal(d).parties) > 0 /\ EveryPartyRevealed(d)
             THEN result'.err = OK /\ Deal(d)'.finalized /\ ~Deal(d)'.cancelled
             ELSE /\ result'.err \in {"Not all offers revealed", "No offers submitted"}
                  /\ IsOpen(d)']_vars

\* A finalizeDeal by an account other than the creator has just succeeded on
\* a created deal of two parties.
C2_Witness ==
    /\ result.cmd = "finalizeDeal" /\ result.err = OK
    /\ Deal(result.dealId).finalized
    /\ Len(Deal(result.dealId).parties) = 2
    /\ Deal(result.dealId).creator # ZeroAddr
    /\ result.sender # Deal(result.dealId).creator

\* The transaction of this step is cmd by sender p on deal d.
Tx(cmd, d, p) == result'.cmd = cmd /\ result'.dealId = d /\ result'.sender = p

\* C3 (as claimed): at most one submitOffer per (deal, party) commits, and
\* every later submitOffer by that party to that deal fails with "Offer
\* already submitted" and leaves the stored offer as it was.
C3_LaterSubmitIsDuplicateOffer ==
    [][\A d \in Ids, p \in Senders :
          /\ Submitted(d, p)' <= 1
          /\ (Submitted(d, p) >= 1 /\ Tx("submitOffer", d, p)) =>
                /\ result'.err = "Offer already submitted"
                /\ Offer(d, p)' = Offer(d, p)]_vars

\* C3 (amended): at most one submitOffer per (deal, party) commits; every
\* later submitOffer by that party to that deal fails and leaves the stored
\* offer as it was: with "Offer already submitted" while the deal is Open,
\* with "Deal already finalized" on a Finalized deal and with "Deal has been
\* cancelled" on a Cancelled one, those two requires coming first.
C3_LaterSubmitFails ==
    [][\A d \in Ids, p \in Senders :
          /\ Submitted(d, p)' <= 1
          /\ (Submitted(d, p) >= 1 /\ Tx("submitOffer", d, p)) =>
                /\ result'.err =
                      IF Deal(d).finalized THEN "Deal already finalized"
                      ELSE IF Deal(d).cancelled THEN "Deal has been cancelled"
                      ELSE "Offer already submitted"
                /\ Offer(d, p)' = Offer(d, p)
                /\ UNCHANGED <<storage, history>>]_vars

\* A second submitOffer by a party of an Open deal has just been rejected.
C3_Witness ==
    /\ result.cmd = "submitOffer" /\ result.err = "Offer already submitted"
    /\ Submitted(result.dealId, result.sender) = 1
    /\ Offer(result.dealId, result.sender).party = result.sender
    /\ IsOpen(result.dealId)

\* C4: an offer is stored with revealed = false; revealed goes from false to
\* true only in a committed revealOffer of its party, never goes back to
\* false, and every revealOffer by that party on that deal after the
\* committed one fails with "Offer already revealed".
C4_RevealOnce ==
    [][\A d \in Ids : \A p \in PartySet(d)' :
          LET before == Offer(d, p)
              after == Offer(d, p)'
          IN  /\ (Tx("submitOffer", d, p) /\ result'.err = OK) => ~after.revealed
              /\ before.revealed => after.revealed
              /\ (~before.revealed /\ after.revealed) =>
                    (Tx("revealOffer", d, p) /\ result'.err = OK /\ before.party = p)
              /\ (before.revealed /\ Tx("revealOffer", d, p)) =>
                    (result'.err = "Offer already revealed" /\ after = before)]_vars

\* A second revealOffer by a party has just been rejected.
C4_Witness ==
    /\ result.cmd = "revealOffer" /\ result.err = "Offer already revealed"
    /\ Offer(result.dealId, result.sender).revealed

\* C5: cancelDeal commits only when the sender is the creator stored for the
\* deal; by any other sender it fails with "Only creator can cancel deal",
\* whether the deal is Open, Finalized or Cancelled, and changes nothing.
C5_OnlyCreatorCancels ==
    [][\A d \in Ids :
          (result'.cmd = "cancelDeal" /\ result'.dealId = d) =>
             /\ result'.err = OK => result'.sender = Deal(d).creator
             /\ result'.sender # Deal(d).creator =>
                   /\ result'.err = "Only creator can cancel deal"
                   /\ UNCHANGED <<storage, history>>]_vars

\* A cancelDeal by a non-creator has just been rejected on a created deal
\* that is Finalized.
C5_Witness ==
    /\ result.cmd = "cancelDeal" /\ result.err = "Only creator can cancel deal"
    /\ Deal(result.dealId).creator \in Addrs
    /\ result.sender # Deal(result.dealId).creator
    /\ Deal(result.dealId).finalized

\* This step is a committed submitOffer on deal d.
SubmitCommitted(d) ==
    result'.cmd = "submitOffer" /\ result'.dealId = d /\ result'.err = OK

C7_TerminalDealIsFrozen ==
    [][\A d \in wasTerminal :
          /\ (result'.cmd \in {"submitOffer", "finalizeDeal", "cancelDeal"}
                /\ result'.dealId = d) => result'.err # OK
          /\ Deal(d)'.parties = Deal(d).parties]_vars

\* C7, for the states in which the deal is Finalized or Cancelled: the three
\* commands fail and the parties list is left as it is.
C7_FrozenWhileTerminal ==
    [][\A d \in Ids :
          ~IsOpen(d) =>
             /\ (result'.cmd \in {"submitOffer", "finalizeDeal", "cancelDeal"}
                   /\ result'.dealId = d) => result'.err # OK
             /\ Deal(d)'.parties = Deal(d).parties]_vars

\* C8: the ids returned by the committed createDeal calls are 0, 1, 2, ... in
\* call order (pairwise distinct, strictly increasing, none issued twice) and
\* dealCounter is the number of committed createDeal calls.
C8_IdsSequential ==
    /\ Len(issued) = dealCounter
    /\ \A i \in 1..Len(issued) : issued[i] = i - 1
    /\ \A i, j \in 1..Len(issued) : i < j => issued[i] < issued[j]
    /\ (result.cmd = "createDeal" /\ result.err = OK) =>
          (result.ret = <<dealCounter - 1>> /\ issued[Len(issued)] = dealCounter - 1)

\* The second createDeal has just returned id 1.
C8_Witness ==
    /\ result.cmd = "createDeal" /\ result.err = OK
    /\ result.ret = <<1>>
    /\ issued = <<0, 1>>

\* C9 (as claimed): no deal ever has more than 100 parties; the submitOffer of
\* a new party with a title to an Open deal of 99 parties succeeds, and a
\* submitOffer to a deal of 100 parties fails with "Maximum parties reached".
C9_CapErrorAtCap ==
    [][\A d \in Ids, p \in Senders :
          /\ Len(Deal(d)'.parties) <= 100
          /\ Tx("submitOffer", d, p) =>
                /\ (/\ Len(Deal(d).parties) = 99
                    /\ IsOpen(d) /\ Offer(d, p).party = ZeroAddr
                    /\ Len(result'.args.title) > 0) => result'.err = OK
                /\ Len(Deal(d).parties) = 100 =>
                      result'.err = "Maximum parties reached"]_vars

\* C9 (amended): no deal ever has more than 100 parties; a submitOffer by a
\* party without an offer in the deal, with a non-empty title, on a deal that
\* is neither finalized nor cancelled succeeds while the deal has fewer than
\* 100 parties (the one that makes the count 100 included) and fails with
\* "Maximum parties reached" once it has 100; any other submitOffer to a deal
\* of 100 parties fails too, with the message of the earlier require.
C9_PartyCap ==
    [][\A d \in Ids, p \in Senders :
          /\ Len(Deal(d)'.parties) <= 100
          /\ Tx("submitOffer", d, p) =>
                /\ (IsOpen(d) /\ Offer(d, p).party = ZeroAddr
                      /\ Len(result'.args.title) > 0) =>
                      IF Len(Deal(d).parties) < 100
                      THEN /\ result'.err = OK
                           /\ Deal(d)'.parties = Append(Deal(d).parties, p)
                      ELSE /\ result'.err = "Maximum parties reached"
                           /\ UNCHANGED <<storage, history>>
                /\ Len(Deal(d).parties) = 100 =>
                      /\ result'.err # OK
                      /\ Deal(d)'.parties = Deal(d).parties]_vars

\* The 101st party's submitOffer has just been rejected by the cap.
C9_Witness ==
    /\ result.cmd = "submitOffer" /\ result.err = "Maximum parties reached"
    /\ Len(Deal(result.dealId).parties) = 100
    /\ Offer(result.dealId, result.sender).party = ZeroAddr

\* C10: createDeal(name, requiredParties) succeeds exactly when
\* 1 <= requiredParties <= 100 and 1 <= len(name) <= 256: requiredParties = 100
\* with len(name) = 256 is accepted; requiredParties = 0 or 101 and len(name) =
\* 0 or 257 are rejected.
C10_CreateDealAccepts ==
    result.cmd = "createDeal" =>
       LET n == Len(result.args.dealName)
           r == result.args.requiredParties
       IN  /\ (result.err = OK) <=> (1 <= r /\ r <= 100 /\ 1 <= n /\ n <= 256)
           /\ (r = 100 /\ n = 256) => result.err = OK
           /\ (r = 0 \/ r = 101 \/ n = 0 \/ n = 257) => result.err # OK

\* createDeal has just accepted a name of 256 bytes with requiredParties = 100.
C10_Witness ==
    /\ result.cmd = "createDeal" /\ result.err = OK
    /\ Len(result.args.dealName) = 256
    /\ result.args.requiredParties = 100
    /\ Deal(result.ret[1]).creator = result.sender

\* An offer is stored under the key (dealId, party).
OfferExists(dealId, party) == Offer(dealId, party).party # ZeroAddr
\* parties has no element twice.
NoDuplicates(parties) ==
    \A i, j \in 1..Len(parties) : parties[i] = parties[j] => i = j
\* old is a prefix of new.
IsPrefix(old, new) ==
    /\ Len(old) <= Len(new)
    /\ \A i \in 1..Len(old) : new[i] = old[i]

\* C11 (as claimed): right after a committed createDeal by c returned k, deal
\* k is Open, its creator is c, its name and requiredParties are the
\* arguments, and its parties list is empty: getPartyCount(k) = 0,
\* areAllOffersRevealed(k) is false and no offer is stored for k.
C11_CreatedDealIsFresh ==
    (result.cmd = "createDeal" /\ result.err = OK) =>
       \A k \in Ids : result.ret = <<k>> =>
          /\ IsOpen(k)
          /\ Deal(k).creator = result.sender
          /\ Deal(k).dealName = result.args.dealName
          /\ Deal(k).requiredParties = result.args.requiredParties
          /\ Deal(k).parties = <<>>
          /\ getPartyCount(k) = 0
          /\ ~areAllOffersRevealed(k)
          /\ \A p \in Senders : ~OfferExists(k, p)

\* C11, the part that does not depend on the parties list: the deal is Open
\* and holds the sender, the name, requiredParties and the block timestamp.
C11_CreatedDealRecord ==
    (result.cmd = "createDeal" /\ result.err = OK) =>
       \A k \in Ids : result.ret = <<k>> =>
          /\ IsOpen(k)
          /\ Deal(k).creator = result.sender
          /\ Deal(k).dealName = result.args.dealName
          /\ Deal(k).requiredParties = result.args.requiredParties
          /\ Deal(k).createdAt = now

\* C12: a command that fails a require leaves dealCounter, every deal, every
\* offer, every offer count, every party index and every access grant as they
\* were, and emits no event.
C12_FailureChangesNothing ==
    [][(result'.cmd \in {"createDeal", "submitOffer", "revealOffer", "finalizeDeal",
                         "cancelDeal"} /\ result'.err # OK) =>
          /\ dealCounter' = dealCounter
          /\ deals' = deals
          /\ offers' = offers
          /\ offerCount' = offerCount
          /\ partyDeals' = partyDeals
          /\ acl' = acl
          /\ result'.events = <<>>
          /\ result'.ret = <<>>]_vars

\* A finalizeDeal has just been rejected on a deal of two parties of which
\* one has revealed: the storage written so far is still there.
C12_Witness ==
    /\ result.cmd = "finalizeDeal" /\ result.err = "Not all offers revealed"
    /\ result.events = <<>>
    /\ Len(Deal(result.dealId).parties) = 2
    /\ \E p, q \in PartySet(result.dealId) :
          Offer(result.dealId, p).revealed /\ ~Offer(result.dealId, q).revealed
    /\ OfferCount(result.dealId) = 2

\* C13: in every reachable state, for every deal d and account p, an offer is
\* stored for (d, p) exactly when p is an element of d's parties list.
C13_OfferIffParty ==
    \A d \in Ids :
       /\ \A p \in Senders \cup PartySet(d) : OfferExists(d, p) <=> p \in PartySet(d)
       /\ \A k \in DOMAIN offers : k[1] = d => k[2] \in PartySet(d)

\* Deal 0 was created after an offer had been submitted to id 0: the offer and
\* the party are both still there.
C13_Witness ==
    /\ result.cmd = "createDeal" /\ result.err = OK /\ result.ret = <<0>>
    /\ \E p \in Addrs : OfferExists(0, p) /\ p \in PartySet(0)
    /\ \E q \in Addrs : ~OfferExists(0, q) /\ q \notin PartySet(0)

\* C14: across every step the old parties list of a deal is a prefix of the
\* new one; a committed submitOffer appends exactly its sender as the last
\* element and every other step leaves the list as it is; no account occurs
\* twice in a list; no stored offer is ever removed.
C14_PartiesAppendOnly ==
    [][\A d \in Ids :
          /\ IsPrefix(Deal(d).parties, Deal(d)'.parties)
          /\ NoDuplicates(Deal(d)'.parties)
          /\ IF SubmitCommitted(d)
             THEN \E p \in Senders :
                     /\ result'.sender = p
                     /\ Deal(d)'.parties = Append(Deal(d).parties, p)
             ELSE Deal(d)'.parties = Deal(d).parties
          /\ \A p \in Senders : OfferExists(d, p) => OfferExists(d, p)']_vars

\* The second party's submitOffer has just appended it behind the first.
C14_Witness ==
    /\ result.cmd = "submitOffer" /\ result.err = OK
    /\ Len(Deal(result.dealId).parties) = 2
    /\ Deal(result.dealId).parties[2] = result.sender
    /\ Deal(result.dealId).parties[1] # result.sender

\* The number of occurrences of dealId in the index seq.
Occurrences(seq, dealId) == Cardinality({ i \in 1..Len(seq) : seq[i] = dealId })

\* C15: for every account p, getDealsByParty(p) is the sequence of the deal
\* ids of p's committed submitOffer transactions in commit order: a committed
\* submitOffer by p on d appends d, no other step changes the sequence, each
\* deal id occurs in it once per committed submitOffer of p to it and so at
\* most once, and getPartyDealCount(p) is its length.
C15_DealIndexIsSubmitLog ==
    [][\A p \in Senders :
          /\ \A d \in Ids :
                (Tx("submitOffer", d, p) /\ result'.err = OK) =>
                   getDealsByParty(p)' = Append(getDealsByParty(p), d)
          /\ ~(result'.cmd = "submitOffer" /\ result'.sender = p /\ result'.err = OK) =>
                getDealsByParty(p)' = getDealsByParty(p)
          /\ NoDuplicates(getDealsByParty(p)')
          /\ \A d \in Ids : Occurrences(getDealsByParty(p)', d) = Submitted(d, p)'
          /\ getPartyDealCount(p)' = Len(getDealsByParty(p)')]_vars

\* An account submitted to deal 1 and then to deal 0: its index lists them in
\* that order.
C15_Witness ==
    /\ result.cmd = "submitOffer" /\ result.err = OK /\ result.dealId = 0
    /\ getDealsByParty(result.sender) = <<1, 0>>
    /\ getPartyDealCount(result.sender) = 2

\* C16: a call of areAllOffersRevealed(d) returns false when d's parties list
\* is empty (an id never created included) and otherwise returns true exactly
\* when every party of the list has an offer with revealed = true; the call
\* changes no state.
C16_AllRevealedView ==
    [][\A d \in Ids :
          (result'.cmd = "areAllOffersRevealed" /\ result'.dealId = d) =>
             /\ result'.err = OK
             /\ Len(Deal(d).parties) = 0 => result'.ret = <<FALSE>>
             /\ Len(Deal(d).parties) > 0 =>
                   result'.ret = << \A p \in PartySet(d) :
                                       OfferExists(d, p) /\ Offer(d, p).revealed >>
             /\ UNCHANGED <<storage, now, history>>]_vars

\* C16, the call on an id that was never created and never written: false.
C16_FalseForUnusedId ==
    (result.cmd = "areAllOffersRevealed" /\ result.dealId >= dealCounter
       /\ result.dealId \notin DOMAIN deals) => result.ret = <<FALSE>>

\* The call has just returned true for a deal of two parties, both revealed.
C16_Witness ==
    /\ result.cmd = "areAllOffersRevealed" /\ result.ret = <<TRUE>>
    /\ Len(Deal(result.dealId).parties) = 2
    /\ EveryPartyRevealed(result.dealId)

\* No offer of deal d is revealed yet.
NoneRevealed(d) == \A p \in PartySet(d) : ~Offer(d, p).revealed

\* C17: in the scenario, A's createDeal("Pilot Deal", 2) returns 0; B's
\* submitOffer succeeds and getPartyCount(0) = 1; C's submitOffer succeeds and
\* getPartyCount(0) = 2; finalizeDeal(0) before any reveal fails with "Not all
\* offers revealed"; after B's reveal areAllOffersRevealed(0) is false and
\* after C's it is true; finalizeDeal(0) then succeeds and the deal is
\* Finalized; a further finalizeDeal(0) fails with "Deal already finalized".
C17_EndToEnd ==
    [][/\ result'.cmd = "createDeal" =>
             /\ result'.err = OK /\ result'.ret = <<0>>
             /\ getPartyCount(0)' = 0
       /\ result'.cmd = "submitOffer" =>
             /\ result'.err = OK
             /\ getPartyCount(0)' = IF result'.args.title = TraceTitleB THEN 1 ELSE 2
             /\ Deal(0)'.parties[getPartyCount(0)'] = result'.sender
       /\ (result'.cmd = "finalizeDeal" /\ NoneRevealed(0)) =>
             /\ result'.err = "Not all offers revealed"
             /\ IsOpen(0)'
       /\ result'.cmd = "revealOffer" =>
             /\ result'.err = OK
             /\ result'.sender = Deal(0).parties[1] => ~areAllOffersRevealed(0)'
             /\ result'.sender = Deal(0).parties[2] => areAllOffersRevealed(0)'
       /\ result'.cmd = "areAllOffersRevealed" =>
             result'.ret = << Offer(0, Deal(0).parties[1]).revealed
                              /\ Offer(0, Deal(0).parties[2]).revealed >>
       /\ (result'.cmd = "finalizeDeal" /\ EveryPartyRevealed(0) /\ ~Deal(0).finalized) =>
             /\ result'.err = OK
             /\ Deal(0)'.finalized /\ ~Deal(0)'.cancelled
       /\ (result'.cmd = "finalizeDeal" /\ Deal(0).finalized) =>
             /\ result'.err = "Deal already finalized"
             /\ Deal(0)'.finalized]_vars

\* The second finalizeDeal of the scenario has just been rejected: deal 0 of A
\* is Finalized with the parties B and C, three different accounts.
C17_Witness ==
    /\ result.cmd = "finalizeDeal" /\ result.err = "Deal already finalized"
    /\ issued = <<0>>
    /\ Deal(0).dealName = TraceDealName /\ Deal(0).requiredParties = TraceRequired
    /\ Deal(0).finalized
    /\ Len(Deal(0).parties) = 2
    /\ Cardinality({Deal(0).creator, Deal(0).parties[1], Deal(0).parties[2]}) = 3
    /\ areAllOffersRevealed(0)

\* C18: submitOffer(d, title) by p succeeds exactly when deal d is neither
\* finalized nor cancelled, p has no offer in d, the title is non-empty and d
\* has fewer than 100 parties (the description may be empty); a committed one
\* stores an offer for (d, p) with revealed = false, appends p to d's parties,
\* adds 1 to d's offer count, appends d to p's deal index and changes no other
\* deal field, offer, offer count or index, nor dealCounter.
C18_SubmitOffer ==
    [][\A d \in Ids, p \in Senders :
          Tx("submitOffer", d, p) =>
             LET accepted == /\ ~Deal(d).finalized /\ ~Deal(d).cancelled
                             /\ ~OfferExists(d, p)
                             /\ Len(result'.args.title) > 0
                             /\ Len(Deal(d).parties) < 100
             IN  /\ (result'.err = OK) <=> accepted
                 /\ accepted =>
                       /\ Offer(d, p)'.party = p
                       /\ Offer(d, p)'.revealed = FALSE
                       /\ Offer(d, p)'.title = result'.args.title
                       /\ Offer(d, p)'.description = result'.args.description
                       /\ Offer(d, p)'.timestamp = now
                       /\ Deal(d)' = [Deal(d) EXCEPT !.parties = Append(Deal(d).parties, p)]
                       /\ OfferCount(d)' = OfferCount(d) + 1
                       /\ PartyDeals(p)' = Append(PartyDeals(p), d)
                       /\ dealCounter' = dealCounter
                       /\ \A k \in DOMAIN deals' : k # d => (k \in DOMAIN deals /\ deals'[k] = deals[k])
                       /\ \A k \in DOMAIN offers' :
                             k # <<d, p>> => (k \in DOMAIN offers /\ offers'[k] = offers[k])
                       /\ \A k \in DOMAIN offerCount' :
                             k # d => (k \in DOMAIN offerCount /\ offerCount'[k] = offerCount[k])
                       /\ \A k \in DOMAIN partyDeals' :
                             k # p => (k \in DOMAIN partyDeals /\ partyDeals'[k] = partyDeals[k])]_vars

\* A submitOffer with an empty description has just been accepted as the
\* 100th offer of a deal.
C18_Witness ==
    /\ result.cmd = "submitOffer" /\ result.err = OK
    /\ result.args.description = <<>>
    /\ Len(Deal(result.dealId).parties) = MAX_PARTIES_PER_DEAL
    /\ OfferCount(result.dealId) = MAX_PARTIES_PER_DEAL
    /\ Offer(result.dealId, result.sender).party = result.sender
    /\ ~Offer(result.dealId, result.sender).revealed

\* C19: revealOffer(d) by p succeeds exactly when an offer is stored for
\* (d, p), it has revealed = false and deal d is not cancelled; a committed
\* one sets that offer's revealed flag and changes no deal, offer count, index
\* or other offer; from a state in which d is cancelled no step changes a
\* revealed flag of d.
C19_RevealOffer ==
    [][\A d \in Ids, p \in Senders :
          /\ Tx("revealOffer", d, p) =>
                LET accepted == /\ OfferExists(d, p)
                                /\ ~Offer(d, p).revealed
                                /\ ~Deal(d).cancelled
                IN  /\ (result'.err = OK) <=> accepted
                    /\ accepted =>
                          /\ Offer(d, p)' = [Offer(d, p) EXCEPT !.revealed = TRUE]
                          /\ UNCHANGED <<dealCounter, deals, offerCount, partyDeals>>
                          /\ DOMAIN offers' = DOMAIN offers
                          /\ \A k \in DOMAIN offers : k # <<d, p>> => offers'[k] = offers[k]
          /\ Deal(d).cancelled =>
                /\ Deal(d)'.cancelled
                /\ Offer(d, p)'.revealed = Offer(d, p).revealed]_vars

\* A revealOffer by a party with an unrevealed offer has just been rejected
\* because the deal is cancelled.
C19_Witness ==
    /\ result.cmd = "revealOffer" /\ result.err = "Deal has been cancelled"
    /\ Deal(result.dealId).cancelled
    /\ OfferExists(result.dealId, result.sender)
    /\ ~Offer(result.dealId, result.sender).revealed

\* C20 (as claimed), over the revealOffer transactions a party of a Finalized
\* deal can send: Finalized does not block the reveal, it succeeds.
C20_RevealSucceedsOnFinalized ==
    [][\A d \in Ids, p \in Senders :
          (Tx("revealOffer", d, p) /\ Deal(d).finalized /\ ~Deal(d).cancelled
             /\ p \in PartySet(d)) => result'.err = OK]_vars

\* C20 (amended): revealOffer does not test the finalized flag, yet no
\* revealOffer ever succeeds on a Finalized deal: every offer of a Finalized
\* deal is already revealed, so a party's revealOffer fails with "Offer
\* already revealed" and any other account's with "No offer found for this
\* address", and nothing changes.
C20_NoRevealOnFinalized ==
    [][\A d \in Ids, p \in Senders :
          /\ Deal(d).finalized => \A q \in PartySet(d) : Offer(d, q).revealed
          /\ (Tx("revealOffer", d, p) /\ Deal(d).finalized) =>
                /\ result'.err = IF p \in PartySet(d) THEN "Offer already revealed"
                                 ELSE "No offer found for this address"
                /\ UNCHANGED <<storage, history>>]_vars

\* A revealOffer by a party of a Finalized deal has just been rejected.
C20_Witness ==
    /\ result.cmd = "revealOffer" /\ result.err = "Offer already revealed"
    /\ Deal(result.dealId).finalized /\ ~Deal(result.dealId).cancelled
    /\ result.sender \in PartySet(result.dealId)
    /\ Len(Deal(result.dealId).parties) = 2

\* C21 (as claimed): finalizeDeal on an Open deal without offers is rejected
\* with "No offers submitted", and with "Not all offers revealed" when at
\* least one submitted offer is still unrevealed.
C21_FinalizeErrorKinds ==
    [][\A d \in Ids :
          (result'.cmd = "finalizeDeal" /\ result'.dealId = d /\ IsOpen(d)) =>
             /\ Len(Deal(d).parties) = 0 => result'.err = "No offers submitted"
             /\ (\E p \in PartySet(d) : ~Offer(d, p).revealed) =>
                   result'.err = "Not all offers revealed"]_vars

\* C21, what the require order gives: on an Open deal a failing finalizeDeal
\* always reports "Not all offers revealed", the empty deal included, and no
\* finalizeDeal ever reports "No offers submitted".
C21_EmptyReportsRevealsIncomplete ==
    [][\A d \in Ids :
          (result'.cmd = "finalizeDeal" /\ result'.dealId = d) =>
             /\ result'.err # "No offers submitted"
             /\ (IsOpen(d) /\ Len(Deal(d).parties) = 0) =>
                   result'.err = "Not all offers revealed"]_vars

\* C22 (as claimed): submitOffer, revealOffer, finalizeDeal and cancelDeal on
\* an id that createDeal has not issued yet all fail, so in every reachable
\* state such an id has no parties, no offers, offer count 0 and is neither
\* finalized nor cancelled.
C22_CommandsRequireDeal ==
    [][\A d \in Ids :
          /\ (d >= dealCounter
                /\ result'.cmd \in {"submitOffer", "revealOffer", "finalizeDeal", "cancelDeal"}
                /\ result'.dealId = d) => result'.err # OK
          /\ d >= dealCounter' =>
                /\ Deal(d)'.parties = <<>>
                /\ \A p \in Senders : ~OfferExists(d, p)'
                /\ OfferCount(d)' = 0
                /\ IsOpen(d)']_vars

\* C22, the one command that does fail on an id not yet issued: cancelDeal,
\* whose creator check no sender passes on a record without creator.
C22_CancelRequiresDeal ==
    [][\A d \in Ids :
          (d >= dealCounter /\ result'.cmd = "cancelDeal" /\ result'.dealId = d) =>
             /\ result'.err = "Only creator can cancel deal"
             /\ ~Deal(d)'.cancelled]_vars

\* C23: the outcome of finalizeDeal(d) and the state it leaves are the same
\* for every sender: the revert message, the event, the return value and the
\* storage after the call are given by the state before it and d alone,
\* whether the sender is the creator, a party or neither.
C23_FinalizePermissionless ==
    [][\A d \in Ids :
          (result'.cmd = "finalizeDeal" /\ result'.dealId = d) =>
             LET outcome == IF Deal(d).finalized THEN "Deal already finalized"
                            ELSE IF Deal(d).cancelled THEN "Deal has been cancelled"
                            ELSE IF PartySet(d) = {} \/ ~EveryPartyRevealed(d)
                                 THEN "Not all offers revealed"
                            ELSE OK
             IN  /\ result'.err = outcome
                 /\ result'.ret = <<>>
                 /\ result'.events = IF outcome = OK THEN << <<"DealFinalized", d, now>> >>
                                      ELSE <<>>
                 /\ Deal(d)' = IF outcome = OK THEN [Deal(d) EXCEPT !.finalized = TRUE]
                               ELSE Deal(d)
                 /\ UNCHANGED <<dealCounter, offers, offerCount, partyDeals, acl, now>>]_vars

\* A finalizeDeal by an account that is neither the creator nor a party of the
\* created deal has just succeeded.
C23_Witness ==
    /\ result.cmd = "finalizeDeal" /\ result.err = OK
    /\ Deal(result.dealId).creator \in Addrs
    /\ result.sender # Deal(result.dealId).creator
    /\ result.sender \notin PartySet(result.dealId)
    /\ Deal(result.dealId).finalized

\* C24: whether submitOffer, revealOffer, finalizeDeal and cancelDeal succeed
\* is decided without the deal's requiredParties; finalizeDeal succeeds with
\* fewer than requiredParties parties, all revealed, and submitOffer succeeds
\* on a deal that already has requiredParties or more parties, below the cap.
C24_RequiredPartiesAdvisory ==
    [][\A d \in Ids, p \in Senders :
          /\ Tx("submitOffer", d, p) =>
                ((result'.err = OK) <=>
                    (IsOpen(d) /\ ~OfferExists(d, p) /\ Len(result'.args.title) > 0
                       /\ Len(Deal(d).parties) < MAX_PARTIES_PER_DEAL))
          /\ Tx("revealOffer", d, p) =>
                ((result'.err = OK) <=>
                    (OfferExists(d, p) /\ ~Offer(d, p).revealed /\ ~Deal(d).cancelled))
          /\ Tx("finalizeDeal", d, p) =>
                ((result'.err = OK) <=>
                    (IsOpen(d) /\ PartySet(d) # {} /\ EveryPartyRevealed(d)))
          /\ Tx("cancelDeal", d, p) =>
                ((result'.err = OK) <=> (IsOpen(d) /\ Deal(d).creator = p))
          /\ (Tx("finalizeDeal", d, p) /\ IsOpen(d) /\ PartySet(d) # {}
                /\ EveryPartyRevealed(d)
                /\ Len(Deal(d).parties) < Deal(d).requiredParties) => result'.err = OK
          /\ (Tx("submitOffer", d, p) /\ IsOpen(d) /\ ~OfferExists(d, p)
                /\ Len(result'.args.title) > 0
                /\ Len(Deal(d).parties) >= Deal(d).requiredParties
                /\ Len(Deal(d).parties) < MAX_PARTIES_PER_DEAL) => result'.err = OK]_vars

\* A deal created for 100 parties has just been finalized with fewer offers.
C24_Witness ==
    /\ result.cmd = "finalizeDeal" /\ result.err = OK
    /\ Deal(result.dealId).requiredParties = MAX_PARTIES_PER_DEAL
    /\ Len(Deal(result.dealId).parties) \in 1..NumAddrs
    /\ Deal(result.dealId).finalized

\* C24: a second offer has just been accepted by a deal created for one party.
C24_WitnessOverSubscribed ==
    /\ result.cmd = "submitOffer" /\ result.err = OK
    /\ Deal(result.dealId).requiredParties = 1
    /\ Len(Deal(result.dealId).parties) = 2

\* The last transaction was cmd and committed.
Committed(cmd) == result.cmd = cmd /\ result.err = OK

\* C25: a committed command emits exactly one event, of its own kind and with
\* its fields: DealCreated(new id, name, requiredParties, sender),
\* OfferSubmitted(dealId, sender, title), OfferRevealed(dealId, sender),
\* DealFinalized(dealId, block timestamp), DealCancelled(dealId, sender); a
\* reverted command and a view call emit none.  The event log, which is the
\* concatenation of these per-transaction events, then lists the committed
\* commands one to one and in order.
C25_OneEventPerCommand ==
    LET e == result.events IN
    /\ result.err # OK => e = <<>>
    /\ result.cmd \in {"deploy", "areAllOffersRevealed"} => e = <<>>
    /\ Committed("createDeal") =>
          /\ result.ret = <<dealCounter - 1>>
          /\ e = << <<"DealCreated", dealCounter - 1, result.args.dealName,
                     result.args.requiredParties, result.sender>> >>
    /\ Committed("submitOffer") =>
          e = << <<"OfferSubmitted", result.dealId, result.sender, result.args.title>> >>
    /\ Committed("revealOffer") =>
          e = << <<"OfferRevealed", result.dealId, result.sender>> >>
    /\ Committed("finalizeDeal") =>
          e = << <<"DealFinalized", result.dealId, now>> >>
    /\ Committed("cancelDeal") =>
          e = << <<"DealCancelled", result.dealId, result.sender>> >>

\* The creator's cancelDeal has just committed and emitted DealCancelled.
C25_Witness ==
    /\ Committed("cancelDeal")
    /\ result.events = << <<"DealCancelled", result.dealId, result.sender>> >>
    /\ Deal(result.dealId).cancelled
    /\ Deal(result.dealId).creator = result.sender

\* The accounts allowed on the sealed value of the offer stored for (d, p).
OfferViewers(d, p) == { g[2] : g \in { x \in acl : x[1] = Offer(d, p).encryptedValue } }

\* C26: a committed submitOffer adds the grants of the new offer's sealed
\* value to the contract itself and to the sender, and no other grant; a
\* reverted submitOffer and every other command leave the grants as they are;
\* in every reachable state the accounts allowed on a stored offer's value are
\* the contract and the submitter.
C26_GrantsOnlyAtSubmit ==
    [][/\ \A d \in Ids, p \in Senders :
             (Tx("submitOffer", d, p) /\ result'.err = OK) =>
                /\ acl' = acl \cup { <<Offer(d, p)'.encryptedValue, ThisAddr>>,
                                     <<Offer(d, p)'.encryptedValue, p>> }
                /\ <<Offer(d, p)'.encryptedValue, p>> \notin acl
       /\ ~(result'.cmd = "submitOffer" /\ result'.err = OK) => acl' = acl
       /\ \A d \in Ids, p \in Senders :
             OfferExists(d, p)' => OfferViewers(d, p)' = {ThisAddr, p}]_vars

\* The second offer of a deal has just been stored: each of the two sealed
\* values is allowed to the contract and to its own submitter.
C26_Witness ==
    /\ Committed("submitOffer")
    /\ Len(Deal(result.dealId).parties) = 2
    /\ \A p \in PartySet(result.dealId) : OfferViewers(result.dealId, p) = {ThisAddr, p}
    /\ Cardinality(acl) = 4

\* C27: once a deal is finalized every party of the deal is allowed on the
\* sealed value of every offer of the deal, and while it is not finalized no
\* party is allowed on the value of another party's offer.
C27_SimultaneousReveal ==
    \A d \in Ids :
       /\ Deal(d).finalized =>
             \A p \in PartySet(d), q \in PartySet(d) : p \in OfferViewers(d, q)
       /\ ~Deal(d).finalized =>
             \A p \in PartySet(d), q \in PartySet(d) : p # q => p \notin OfferViewers(d, q)

\* What the contract does instead: finalization opens nothing, a party is
\* never allowed on the sealed value of another party's offer.
C27_SealedFromOtherParties ==
    \A d \in Ids : \A p \in PartySet(d), q \in PartySet(d) :
       p # q => p \notin OfferViewers(d, q)

\* A finalized deal with two parties, neither allowed on the other's value.
C27_FinalizedStillSealed ==
    \E d \in Ids :
       /\ Deal(d).finalized
       /\ Cardinality(PartySet(d)) = 2
       /\ \A p \in PartySet(d), q \in PartySet(d) : p # q => p \notin OfferViewers(d, q)

\* C28: a submitOffer, revealOffer, finalizeDeal or cancelDeal on deal d,
\* committed or reverted, leaves dealCounter and, for every other deal, the
\* record (status and parties included), every offer with its reveal flag and
\* the offer count as they were.
C28_NoCrossDealCoupling ==
    [][\A d \in Ids :
          (/\ result'.cmd \in {"submitOffer", "revealOffer", "finalizeDeal", "cancelDeal"}
           /\ result'.dealId = d) =>
             /\ dealCounter' = dealCounter
             /\ \A e \in Ids \ {d} :
                   /\ Deal(e)' = Deal(e)
                   /\ OfferCount(e)' = OfferCount(e)
                   /\ \A p \in Senders : Offer(e, p)' = Offer(e, p)]_vars

\* A command on one deal has just committed while another deal holds an
\* offer.
C28_Witness ==
    /\ result.cmd \in {"submitOffer", "revealOffer", "finalizeDeal", "cancelDeal"}
    /\ result.err = OK
    /\ \E e \in Ids \ {result.dealId} :
          /\ e < dealCounter
          /\ Len(Deal(e).parties) > 0
          /\ \E p \in Senders : OfferExists(e, p)

\* C29: the party, sealed value handle, title, description and timestamp of
\* a stored offer are those written by the committed submitOffer that stored
\* it (its sender, the handle of its input, its title and description, the
\* block time of the submission) and no later step changes them; a stored
\* offer stays stored, and only its revealed flag may differ afterwards.
C29_OfferFieldsWrittenOnce ==
    [][\A d \in Ids, p \in ClockAddrs :
          /\ OfferExists(d, p) =>
                /\ OfferExists(d, p)'
                /\ Offer(d, p)' = [Offer(d, p) EXCEPT !.revealed = Offer(d, p)'.revealed]
          /\ (~OfferExists(d, p) /\ OfferExists(d, p)') =>
                /\ Tx("submitOffer", d, p) /\ result'.err = OK
                /\ now' = now
                /\ \E h \in InputHandles(p) :
                      Offer(d, p)' = [party |-> p, encryptedValue |-> fromExternal(h),
                                      title |-> result'.args.title,
                                      description |-> result'.args.description,
                                      timestamp |-> now, revealed |-> FALSE]]_vars

\* An offer submitted in an earlier block has just been revealed in a later
\* one: it still carries the time of its submission.
C29_Witness ==
    /\ Committed("revealOffer")
    /\ Offer(result.dealId, result.sender).revealed
    /\ Offer(result.dealId, result.sender).party = result.sender
    /\ Offer(result.dealId, result.sender).timestamp < now
    /\ Offer(result.dealId, result.sender).timestamp > 0

\* C30: the creator, name, requiredParties and createdAt of a deal are those
\* written by the createDeal that issued its id (its sender, its arguments,
\* the block time) and no later step changes them; for an issued id
\* isCreator(d, a) keeps its value, and a cancelDeal commits only for that
\* creator.
C30_DealIdentityFixed ==
    [][\A d \in Ids :
          /\ d < dealCounter =>
                /\ Deal(d)'.creator = Deal(d).creator
                /\ Deal(d)'.dealName = Deal(d).dealName
                /\ Deal(d)'.requiredParties = Deal(d).requiredParties
                /\ Deal(d)'.createdAt = Deal(d).createdAt
                /\ \A a \in ClockAddrs \cup {ZeroAddr} : isCreator(d, a)' = isCreator(d, a)
                /\ (result' # result /\ result'.cmd = "cancelDeal"
                       /\ result'.dealId = d /\ result'.err = OK) =>
                      isCreator(d, result'.sender)
          /\ (d = dealCounter /\ dealCounter' # dealCounter) =>
                /\ result'.cmd = "createDeal" /\ result'.err = OK
                /\ dealCounter' = d + 1
                /\ Deal(d)'.creator = result'.sender
                /\ Deal(d)'.dealName = result'.args.dealName
                /\ Deal(d)'.requiredParties = result'.args.requiredParties
                /\ Deal(d)'.createdAt = now]_vars

\* Deal 0 holds an offer and was cancelled by its creator after another
\* account had created deal 1 in a later block: both records still name their
\* own creator and creation time.
C30_Witness ==
    /\ Committed("cancelDeal")
    /\ result.dealId = 0
    /\ dealCounter = 2
    /\ Deal(0).cancelled
    /\ Len(Deal(0).parties) > 0
    /\ isCreator(0, result.sender)
    /\ ~isCreator(1, result.sender)
    /\ Deal(1).creator \in ClockAddrs
    /\ Deal(0).createdAt < Deal(1).createdAt
    /\ Deal(1).createdAt < now

\* C31: in every reachable state no deal has both finalized = true and
\* cancelled = true.
C31_StatusesExclusive ==
    \A d \in Ids : ~(Deal(d).finalized /\ Deal(d).cancelled)

\* The creator's cancelDeal on a Finalized deal has just been rejected: the
\* deal is Finalized and not Cancelled.
C31_Witness ==
    /\ result.cmd = "cancelDeal"
    /\ result.err = "Cannot cancel finalized deal"
    /\ isCreator(result.dealId, result.sender)
    /\ Deal(result.dealId).finalized
    /\ ~Deal(result.dealId).cancelled

\* C32: a transaction runs as one step, so a finalizeDeal and the creator's
\* cancelDeal on the same deal are ordered.  On an Open deal whose offers are
\* all revealed whichever of the two comes first commits and leaves the deal
\* in its own terminal status only; a cancelDeal by the creator on the
\* Finalized deal then fails with "Cannot cancel finalized deal", a
\* finalizeDeal on the Cancelled deal fails with "Deal has been cancelled",
\* and the failing one leaves the deal as it is.
C32_FinalizeCancelSerialized ==
    [][\A d \in Ids, p \in Addrs :
          /\ (Tx("finalizeDeal", d, p) /\ IsOpen(d) /\ areAllOffersRevealed(d)) =>
                /\ result'.err = OK
                /\ Deal(d)'.finalized /\ ~Deal(d)'.cancelled
          /\ (Tx("cancelDeal", d, p) /\ IsOpen(d) /\ areAllOffersRevealed(d)
                 /\ isCreator(d, p)) =>
                /\ result'.err = OK
                /\ Deal(d)'.cancelled /\ ~Deal(d)'.finalized
          /\ (Tx("cancelDeal", d, p) /\ Deal(d).finalized /\ isCreator(d, p)) =>
                /\ result'.err = "Cannot cancel finalized deal"
                /\ Deal(d)' = Deal(d)
          /\ (Tx("finalizeDeal", d, p) /\ Deal(d).cancelled) =>
                /\ result'.err = "Deal has been cancelled"
                /\ Deal(d)' = Deal(d)]_vars

\* The creator cancelled a deal whose offers were all revealed, and the
\* finalizeDeal that came second has just been rejected.
C32_Witness ==
    /\ result.cmd = "finalizeDeal"
    /\ result.err = "Deal has been cancelled"
    /\ areAllOffersRevealed(result.dealId)
    /\ Len(Deal(result.dealId).parties) = NumAddrs
    /\ Deal(result.dealId).cancelled
    /\ ~Deal(result.dealId).finalized

\* The other order: the deal was finalized first and the creator's cancelDeal
\* that came second has just been rejected.
C32_WitnessFinalizeFirst ==
    /\ result.cmd = "cancelDeal"
    /\ result.err = "Cannot cancel finalized deal"
    /\ isCreator(result.dealId, result.sender)
    /\ areAllOffersRevealed(result.dealId)
    /\ Len(Deal(result.dealId).parties) = NumAddrs
    /\ Deal(result.dealId).finalized
    /\ ~Deal(result.dealId).cancelled

\* The transaction recorded in r, with input handle h, as an argument of
\* ExecErr and ExecStore.
CmdOf(r, h) ==
    [cmd |-> r.cmd, sender |-> r.sender, dealId |-> r.dealId, title |-> r.args.title,
     description |-> r.args.description, handle |-> h]

\* ExecErr and ExecStore compute what the transactions do: every step of
\* submitOffer, revealOffer, finalizeDeal or cancelDeal reports the error of
\* ExecErr and leaves the storage of ExecStore.
ExecAgreesWithStep ==
    (result' # result
        /\ result'.cmd \in {"submitOffer", "revealOffer", "finalizeDeal", "cancelDeal"}) =>
       \E h \in (IF result'.cmd = "submitOffer" THEN InputHandles(result'.sender) ELSE {0}) :
          /\ ExecErr(StorageRec, CmdOf(result', h)) = result'.err
          /\ ExecStore(StorageRec, CmdOf(result', h)) = StorageRec'
C33_ExecAgreesWithStep == [][ExecAgreesWithStep]_vars

\* a and b report the same outcome and leave the same storage in both orders.
Commute(st, a, b) ==
    LET sa == ExecStore(st, a)
        sb == ExecStore(st, b)
    IN  /\ ExecErr(sb, a) = ExecErr(st, a)
        /\ ExecErr(sa, b) = ExecErr(st, b)
        /\ ExecStore(sa, b) = ExecStore(sb, a)

CommuteUpToIndexOrder(st, a, b) ==
    LET sa == ExecStore(st, a)
        sb == ExecStore(st, b)
        sab == ExecStore(sa, b)
        sba == ExecStore(sb, a)
    IN  /\ ExecErr(sb, a) = ExecErr(st, a)
        /\ ExecErr(sa, b) = ExecErr(st, b)
        /\ [sab EXCEPT !.partyDeals = <<>>] = [sba EXCEPT !.partyDeals = <<>>]
        /\ DOMAIN sab.partyDeals = DOMAIN sba.partyDeals
        /\ \A p \in CommAddrs :
              IF /\ a.cmd = "submitOffer" /\ b.cmd = "submitOffer"
                 /\ a.sender = p /\ b.sender = p
                 /\ ExecErr(st, a) = OK /\ ExecErr(st, b) = OK
              THEN /\ PartyDealsIn(sab, p) = PartyDealsIn(st, p) \o <<a.dealId, b.dealId>>
                   /\ PartyDealsIn(sba, p) = PartyDealsIn(st, p) \o <<b.dealId, a.dealId>>
              ELSE PartyDealsIn(sab, p) = PartyDealsIn(sba, p)

C34_SubmitGuardOrder ==
    [][\A d \in Ids, p \in CapSenders :
          Tx("submitOffer", d, p) =>
             LET fin == Deal(d).finalized
                 can == Deal(d).cancelled
                 dup == OfferExists(d, p)
                 empty == result'.args.title = <<>>
                 full == Len(Deal(d).parties) >= MAX_PARTIES_PER_DEAL
             IN  /\ fin => result'.err = "Deal already finalized"
                 /\ (~fin /\ can) => result'.err = "Deal has been cancelled"
                 /\ (~fin /\ ~can /\ dup) => result'.err = "Offer already submitted"
                 /\ (~fin /\ ~can /\ ~dup /\ empty) => result'.err = "Title cannot be empty"
                 /\ (~fin /\ ~can /\ ~dup /\ ~empty /\ full) =>
                       result'.err = "Maximum parties reached"
                 /\ (~fin /\ ~can /\ ~dup /\ ~empty /\ ~full) => result'.err = OK]_vars

\* A new party has just submitted an empty title to a full open deal and got
\* "Title cannot be empty".
C34_Witness ==
    /\ result.cmd = "submitOffer"
    /\ result.err = "Title cannot be empty"
    /\ result.args.title = <<>>
    /\ IsOpen(result.dealId)
    /\ Len(Deal(result.dealId).parties) = MAX_PARTIES_PER_DEAL
    /\ ~OfferExists(result.dealId, result.sender)

\* A party with an offer has just resubmitted an empty title to a Finalized
\* deal and got "Deal already finalized".
C34_WitnessFinalized ==
    /\ result.cmd = "submitOffer"
    /\ result.err = "Deal already finalized"
    /\ result.args.title = <<>>
    /\ Deal(result.dealId).finalized
    /\ OfferExists(result.dealId, result.sender)

\* A party with an offer has just resubmitted an empty title to a full open
\* deal and got "Offer already submitted".
C34_WitnessDuplicate ==
    /\ result.cmd = "submitOffer"
    /\ result.err = "Offer already submitted"
    /\ result.args.title = <<>>
    /\ IsOpen(result.dealId)
    /\ Len(Deal(result.dealId).parties) = MAX_PARTIES_PER_DEAL
    /\ OfferExists(result.dealId, result.sender)

\* C35: a revealOffer reports the first violated guard in the order "No offer
\* found for this address", "Offer already revealed", "Deal has been
\* cancelled", and commits when none is violated: on a Cancelled deal a caller
\* without an offer gets the first, a caller whose offer is revealed the
\* second, and only a caller with an unrevealed offer the third.
C35_RevealGuardOrder ==
    [][\A d \in Ids, p \in Addrs :
          Tx("revealOffer", d, p) =>
             LET none == Offer(d, p).party # p
                 done == Offer(d, p).revealed
                 can == Deal(d).cancelled
             IN  /\ none => result'.err = "No offer found for this address"
                 /\ (~none /\ done) => result'.err = "Offer already revealed"
                 /\ (~none /\ ~done /\ can) => result'.err = "Deal has been cancelled"
                 /\ (~none /\ ~done /\ ~can) => result'.err = OK]_vars

\* On a Cancelled deal a caller whose offer is revealed has just got "Offer
\* already revealed", while another party's offer is unrevealed.
C35_Witness ==
    /\ result.cmd = "revealOffer"
    /\ result.err = "Offer already revealed"
    /\ Deal(result.dealId).cancelled
    /\ Offer(result.dealId, result.sender).revealed
    /\ \E q \in PartySet(result.dealId) : ~Offer(result.dealId, q).revealed

\* On a Cancelled deal that holds an offer, a caller without an offer has
\* just got "No offer found for this address".
C35_WitnessNoOffer ==
    /\ result.cmd = "revealOffer"
    /\ result.err = "No offer found for this address"
    /\ Deal(result.dealId).cancelled
    /\ Len(Deal(result.dealId).parties) > 0
    /\ ~OfferExists(result.dealId, result.sender)

\* On a Cancelled deal a caller with an unrevealed offer has just got "Deal
\* has been cancelled".
C35_WitnessUnrevealed ==
    /\ result.cmd = "revealOffer"
    /\ result.err = "Deal has been cancelled"
    /\ Deal(result.dealId).cancelled
    /\ OfferExists(result.dealId, result.sender)
    /\ ~Offer(result.dealId, result.sender).revealed

\* The committed submitOffer transactions on deal d among the (deal, party)
\* pairs of keys.
RECURSIVE SubmitCommits(_, _)
SubmitCommits(d, keys) ==
    IF keys = {} THEN 0
    ELSE LET k == CHOOSE x \in keys : TRUE
         IN  (IF k[1] = d THEN submitted[k] ELSE 0) + SubmitCommits(d, keys \ {k})

\* C36: in every reachable state and for every deal id d, offerCount[d]
\* equals the length of d's parties list, which is getPartyCount(d), and both
\* equal the number of submitOffer transactions committed on d.
C36_OfferCountIsPartyCount ==
    \A d \in Ids :
       /\ OfferCount(d) = Len(Deal(d).parties)
       /\ getPartyCount(d) = Len(Deal(d).parties)
       /\ OfferCount(d) = SubmitCommits(d, DOMAIN submitted)

\* Every account has committed a submitOffer on the deal, the last one just
\* now: the count, the list length and the number of commits are NumAddrs.
C36_Witness ==
    /\ Committed("submitOffer")
    /\ OfferCount(result.dealId) = NumAddrs
    /\ getPartyCount(result.dealId) = NumAddrs
    /\ SubmitCommits(result.dealId, DOMAIN submitted) = NumAddrs

\* C37: in every reachable state a deal with finalized = true has a
\* non-empty parties list, areAllOffersRevealed is true for it and no offer
\* stored for it is unrevealed, whatever the order in which submitOffer and
\* finalizeDeal transactions arrived.
C37_FinalizedMeansAllRevealed ==
    \A d \in Ids :
       Deal(d).finalized =>
          /\ Len(Deal(d).parties) > 0
          /\ areAllOffersRevealed(d)
          /\ \A p \in Senders : OfferExists(d, p) => Offer(d, p).revealed

\* A late submitOffer by an account without an offer arrived after the
\* finalizeDeal and has just been rejected: the Finalized deal holds revealed
\* offers only.
C37_Witness ==
    /\ result.cmd = "submitOffer"
    /\ result.err = "Deal already finalized"
    /\ result.args.title # <<>>
    /\ ~OfferExists(result.dealId, result.sender)
    /\ Deal(result.dealId).finalized
    /\ areAllOffersRevealed(result.dealId)

\* The other order: the submitOffer arrived first and the finalizeDeal has
\* just been rejected because the new offer is unrevealed.
C37_WitnessSubmitFirst ==
    /\ result.cmd = "finalizeDeal"
    /\ result.err = "Not all offers revealed"
    /\ ~Deal(result.dealId).finalized
    /\ \E p \in PartySet(result.dealId), q \in PartySet(result.dealId) :
          Offer(result.dealId, p).revealed /\ ~Offer(result.dealId, q).revealed

\* C38: the revealed flag of the offer stored for (d, p) changes only in a
\* committed revealOffer(d) sent by p, and then from false to true; no other
\* account and no other command changes it, and no step makes a deal
\* Finalized while it holds an unrevealed offer of p.
C38_OnlyOwnerReveals ==
    [][\A d \in Ids, p \in Addrs :
          /\ Offer(d, p)'.revealed # Offer(d, p).revealed =>
                /\ Tx("revealOffer", d, p)
                /\ result'.err = OK
                /\ ~Offer(d, p).revealed /\ Offer(d, p)'.revealed
          /\ (OfferExists(d, p) /\ ~Offer(d, p).revealed) =>
                /\ ~Deal(d).finalized
                /\ ~Deal(d)'.finalized]_vars

\* The last unrevealed offer of a deal created by another account has just
\* been revealed by its own party.
C38_Witness ==
    /\ Committed("revealOffer")
    /\ Offer(result.dealId, result.sender).revealed
    /\ ~isCreator(result.dealId, result.sender)
    /\ result.dealId < dealCounter
    /\ Len(Deal(result.dealId).parties) = 2
    /\ areAllOffersRevealed(result.dealId)

\* The creator's finalizeDeal has just been rejected while another party's
\* offer is the only unrevealed one.
C38_WitnessBlocked ==
    /\ result.cmd = "finalizeDeal"
    /\ result.err = "Not all offers revealed"
    /\ isCreator(result.dealId, result.sender)
    /\ Offer(result.dealId, result.sender).revealed
    /\ \E q \in PartySet(result.dealId) : ~Offer(result.dealId, q).revealed

\* C39: a step changes areAllOffersRevealed(d) from true to false only when
\* it is a committed submitOffer on d, and from false to true only when it is
\* a committed revealOffer on d; createDeal, finalizeDeal, cancelDeal and the
\* view call leave its value as it is.
C39_AllRevealedChanges ==
    [][\A d \in Ids :
          /\ (areAllOffersRevealed(d) /\ ~areAllOffersRevealed(d)') =>
                (result'.cmd = "submitOffer" /\ result'.dealId = d /\ result'.err = OK)
          /\ (~areAllOffersRevealed(d) /\ areAllOffersRevealed(d)') =>
                (result'.cmd = "revealOffer" /\ result'.dealId = d /\ result'.err = OK)
          /\ result'.cmd \in {"createDeal", "finalizeDeal", "cancelDeal",
                              "areAllOffersRevealed"} =>
                areAllOffersRevealed(d)' = areAllOffersRevealed(d)]_vars

\* Not monotonic: on an Open deal whose only offer was revealed, a second
\* party's submitOffer has just committed and areAllOffersRevealed is false
\* again.
C39_Witness ==
    /\ Committed("submitOffer")
    /\ IsOpen(result.dealId)
    /\ result.dealId < dealCounter
    /\ Len(Deal(result.dealId).parties) = 2
    /\ Offer(result.dealId, Deal(result.dealId).parties[1]).revealed
    /\ ~Offer(result.dealId, result.sender).revealed
    /\ ~areAllOffersRevealed(result.dealId)

\* The last transaction was a committed submitOffer or cancelDeal on d.
SubmitOrCancelCommitted(d) ==
    /\ result.cmd \in {"submitOffer", "cancelDeal"}
    /\ result.dealId = d
    /\ result.err = OK

\* C40: with the committed revealOffer of every account and a committed
\* finalizeDeal weakly fair, an Open deal with at least one offer is
\* eventually Finalized unless a further submitOffer or cancelDeal commits on
\* it; and when every offer of an Open deal is revealed finalizeDeal is ready
\* to commit and stays so across every step that is not a committed
\* submitOffer, cancelDeal or finalizeDeal on the deal.
C40_EventuallyFinalized ==
    /\ \A d \in FirstDeal :
          (IsOpen(d) /\ Len(Deal(d).parties) > 0 /\ ~SubmitOrCancelCommitted(d))
             ~> (Deal(d).finalized \/ SubmitOrCancelCommitted(d))
    /\ [][\A d \in FirstDeal :
             (IsOpen(d) /\ areAllOffersRevealed(d)) =>
                /\ finalizeDealError(d) = OK
                /\ ~(/\ result' # result
                     /\ result'.cmd \in {"submitOffer", "cancelDeal", "finalizeDeal"}
                     /\ result'.dealId = d
                     /\ result'.err = OK) =>
                      /\ IsOpen(d)' /\ areAllOffersRevealed(d)'
                      /\ finalizeDealError(d)' = OK]_vars

\* Every account submitted and revealed an offer and the finalizeDeal has
\* just committed.
C40_Witness ==
    /\ Committed("finalizeDeal")
    /\ Deal(result.dealId).finalized
    /\ Len(Deal(result.dealId).parties) = NumAddrs
    /\ areAllOffersRevealed(result.dealId)
    /\ Deal(result.dealId).requiredParties = MAX_PARTIES_PER_DEAL

====
